---- MODULE Spec2Model ----
(***************************************************************************)
(* MathClock: the cooperative loop() of the main sketch, its input         *)
(* dispatcher, the physical button, the settings/edit sub-machine and the  *)
(* three game engines (Dino, Dodge, Snake).                                *)
(*                                                                         *)
(* One loop() iteration is three steps, in the order of loop():            *)
(*   pc = "button" : handleButton()                                        *)
(*   pc = "ir"     : handleIRInput()                                       *)
(*   pc = "mode"   : switch (currentMode) { run<Mode>() }                  *)
(*                                                                         *)
(* Time.  The code stores timestamps (millis()) and only ever uses them in *)
(* the unsigned differences millis() - stamp.  The model stores those      *)
(* differences ("since..." variables), each saturated just above the       *)
(* largest threshold it is compared with.  Time passes at the start of an  *)
(* iteration (by an amount the environment chooses) and in the code's      *)
(* delay() calls.                                                          *)
(***************************************************************************)
EXTENDS Integers, Sequences, FiniteSets, TLC

\* ---------------------------------------------------------------- constants
BUTTON_SHORT_PRESS_MS  == 1000
BUTTON_MEDIUM_PRESS_MS == 3000
BUTTON_LONG_PRESS_MS   == 5000
GAME_TIMEOUT_MS        == 15000
SETTINGS_TIMEOUT_MS    == 30000
GAME_SELECT_TIMEOUT_MS == 10000

JUMP_DURATION_MS   == 450
INITIAL_GAME_SPEED == 100
MIN_GAME_SPEED     == 40
SPEED_DECREASE     == 1
OBSTACLE_START_X   == 14
PLAYER_X           == 1
PLAYER_GROUND_Y    == 3
PLAYER_AIR_Y       == 0
GROUND_OBSTACLE    == 0
AIR_OBSTACLE       == 1
COLLISION_FLASH_MS == 3000
LAUNCH_FLASH_MS    == 200

DODGE_COLS           == 15
DODGE_ROWS           == 10
DODGE_PLAYER_Y       == 9
DODGE_PLAYER_START_X == 7
DODGE_INITIAL_SPEED  == 160
DODGE_MIN_SPEED      == 35
DODGE_SPEED_DECREASE == 2
DODGE_DEATH_FLASH    == 2500
DODGE_HIT_FLASH_MS   == 300
DODGE_TIMEOUT_MS     == 15000
DODGE_MAX_BLOCKS     == 2

SNAKE_COLS          == 15
SNAKE_ROWS          == 10
SNAKE_MAX_LENGTH    == 24
SNAKE_INITIAL_SPEED == 300
SNAKE_MIN_SPEED     == 80
SNAKE_SPEED_STEP    == 3
SNAKE_DEATH_FLASH   == 3000
SNAKE_BLINK_MS      == 350
SNAKE_TIMEOUT_MS    == 20000
DIR_UP    == 0
DIR_RIGHT == 1
DIR_DOWN  == 2
DIR_LEFT  == 3

MENU_DIFFICULTY == 0
MENU_TIME       == 1
MENU_DATE       == 2
MENU_EXIT       == 3

Modes == {"CLOCK", "SETTING", "GAME", "DODGE_GAME", "GAME_SELECT",
          "SET_TIME", "SET_DATE", "SNAKE_GAME"}
PinNames == {"RETURN", "UP", "DOWN", "LEFT", "RIGHT", "OK",
             "GAME1", "GAME2", "GAME3", "OPTIONS"}

\* ---------------------------------------------------------------- variables
VARIABLES
  pc,
  currentMode, currentMenu, gameSelectChoice, settingStep,
  tempHour, tempMinute, tempYear, tempMonth, tempDay, difficulty,
  btnActive, btnMediumFired, sinceBtn,
  lastPins, sinceIR, sinceGameIR, sinceActivity,
  score, highScore, playerY, isJumping, sinceJump, obstacleX, obstacleType,
  gameSpeed, sinceFrame, irJumpTriggered,
  dodgePlayerX, dodgeSpeed, dodgeScore, dodgeHighScore, dodgeBlocks,
  sinceDodgeFrame, dodgeMoveLeft, dodgeMoveRight,
  snakeBody, snakeDir, snakePendingDir, foodX, foodY, snakeSpeed,
  snakeScore, snakeHighScore, sinceSnakeMove,
  snakeTurnUp, snakeTurnDown, snakeTurnLeft, snakeTurnRight,
  rtc, eeprom,
  \* observers (not program state): what the current iteration did
  death, eeWrites, rtcWrites, btnEvent, sinceInput, sinceSettingsAct, presses,
  \* observer: the lines that were asserted when the remote was last sampled
  pinSample,
  \* observer: the mode handleButton() found in this iteration, kept until
  \* handleIRInput() has run
  buttonMode,
  \* the last call of getEquation(): its arguments and the expression returned
  equation

vars == <<pc,
  currentMode, currentMenu, gameSelectChoice, settingStep,
  tempHour, tempMinute, tempYear, tempMonth, tempDay, difficulty,
  btnActive, btnMediumFired, sinceBtn,
  lastPins, sinceIR, sinceGameIR, sinceActivity,
  score, highScore, playerY, isJumping, sinceJump, obstacleX, obstacleType,
  gameSpeed, sinceFrame, irJumpTriggered,
  dodgePlayerX, dodgeSpeed, dodgeScore, dodgeHighScore, dodgeBlocks,
  sinceDodgeFrame, dodgeMoveLeft, dodgeMoveRight,
  snakeBody, snakeDir, snakePendingDir, foodX, foodY, snakeSpeed,
  snakeScore, snakeHighScore, sinceSnakeMove,
  snakeTurnUp, snakeTurnDown, snakeTurnLeft, snakeTurnRight,
  rtc, eeprom,
  death, eeWrites, rtcWrites, btnEvent, sinceInput, sinceSettingsAct, presses,
  pinSample, buttonMode, equation>>

\* The program state as one record, so that the handlers below are functions
\* from state to state and compose in the order the code calls them.
State == [
  currentMode |-> currentMode, currentMenu |-> currentMenu,
  gameSelectChoice |-> gameSelectChoice, settingStep |-> settingStep,
  tempHour |-> tempHour, tempMinute |-> tempMinute, tempYear |-> tempYear,
  tempMonth |-> tempMonth, tempDay |-> tempDay, difficulty |-> difficulty,
  btnActive |-> btnActive, btnMediumFired |-> btnMediumFired, sinceBtn |-> sinceBtn,
  lastPins |-> lastPins, sinceIR |-> sinceIR, sinceGameIR |-> sinceGameIR,
  sinceActivity |-> sinceActivity,
  score |-> score, highScore |-> highScore, playerY |-> playerY,
  isJumping |-> isJumping, sinceJump |-> sinceJump, obstacleX |-> obstacleX,
  obstacleType |-> obstacleType, gameSpeed |-> gameSpeed, sinceFrame |-> sinceFrame,
  irJumpTriggered |-> irJumpTriggered,
  dodgePlayerX |-> dodgePlayerX, dodgeSpeed |-> dodgeSpeed, dodgeScore |-> dodgeScore,
  dodgeHighScore |-> dodgeHighScore, dodgeBlocks |-> dodgeBlocks,
  sinceDodgeFrame |-> sinceDodgeFrame, dodgeMoveLeft |-> dodgeMoveLeft,
  dodgeMoveRight |-> dodgeMoveRight,
  snakeBody |-> snakeBody, snakeDir |-> snakeDir, snakePendingDir |-> snakePendingDir,
  foodX |-> foodX, foodY |-> foodY, snakeSpeed |-> snakeSpeed,
  snakeScore |-> snakeScore, snakeHighScore |-> snakeHighScore,
  sinceSnakeMove |-> sinceSnakeMove,
  snakeTurnUp |-> snakeTurnUp, snakeTurnDown |-> snakeTurnDown,
  snakeTurnLeft |-> snakeTurnLeft, snakeTurnRight |-> snakeTurnRight,
  rtc |-> rtc, eeprom |-> eeprom,
  death |-> death, eeWrites |-> eeWrites, rtcWrites |-> rtcWrites,
  btnEvent |-> btnEvent, sinceInput |-> sinceInput,
  sinceSettingsAct |-> sinceSettingsAct, presses |-> presses,
  pinSample |-> pinSample, buttonMode |-> buttonMode, equation |-> equation]

Commit(t) ==
  /\ currentMode' = t.currentMode /\ currentMenu' = t.currentMenu
  /\ gameSelectChoice' = t.gameSelectChoice /\ settingStep' = t.settingStep
  /\ tempHour' = t.tempHour /\ tempMinute' = t.tempMinute /\ tempYear' = t.tempYear
  /\ tempMonth' = t.tempMonth /\ tempDay' = t.tempDay /\ difficulty' = t.difficulty
  /\ btnActive' = t.btnActive /\ btnMediumFired' = t.btnMediumFired
  /\ sinceBtn' = t.sinceBtn
  /\ lastPins' = t.lastPins /\ sinceIR' = t.sinceIR /\ sinceGameIR' = t.sinceGameIR
  /\ sinceActivity' = t.sinceActivity
  /\ score' = t.score /\ highScore' = t.highScore /\ playerY' = t.playerY
  /\ isJumping' = t.isJumping /\ sinceJump' = t.sinceJump /\ obstacleX' = t.obstacleX
  /\ obstacleType' = t.obstacleType /\ gameSpeed' = t.gameSpeed
  /\ sinceFrame' = t.sinceFrame /\ irJumpTriggered' = t.irJumpTriggered
  /\ dodgePlayerX' = t.dodgePlayerX /\ dodgeSpeed' = t.dodgeSpeed
  /\ dodgeScore' = t.dodgeScore /\ dodgeHighScore' = t.dodgeHighScore
  /\ dodgeBlocks' = t.dodgeBlocks /\ sinceDodgeFrame' = t.sinceDodgeFrame
  /\ dodgeMoveLeft' = t.dodgeMoveLeft /\ dodgeMoveRight' = t.dodgeMoveRight
  /\ snakeBody' = t.snakeBody /\ snakeDir' = t.snakeDir
  /\ snakePendingDir' = t.snakePendingDir /\ foodX' = t.foodX /\ foodY' = t.foodY
  /\ snakeSpeed' = t.snakeSpeed /\ snakeScore' = t.snakeScore
  /\ snakeHighScore' = t.snakeHighScore /\ sinceSnakeMove' = t.sinceSnakeMove
  /\ snakeTurnUp' = t.snakeTurnUp /\ snakeTurnDown' = t.snakeTurnDown
  /\ snakeTurnLeft' = t.snakeTurnLeft /\ snakeTurnRight' = t.snakeTurnRight
  /\ rtc' = t.rtc /\ eeprom' = t.eeprom
  /\ death' = t.death /\ eeWrites' = t.eeWrites /\ rtcWrites' = t.rtcWrites
  /\ btnEvent' = t.btnEvent /\ sinceInput' = t.sinceInput
  /\ sinceSettingsAct' = t.sinceSettingsAct /\ presses' = t.presses
  /\ pinSample' = t.pinSample /\ buttonMode' = t.buttonMode
  /\ equation' = t.equation

\* --------------------------------------------------------------------- time
Min(a, b) == IF a < b THEN a ELSE b
Max(a, b) == IF a > b THEN a ELSE b

\* millis() - stamp after d more milliseconds, saturated at cap.
Aged(a, d, cap) == Min(a + d, cap)

\* d milliseconds pass (between two iterations, or in a delay()): every
\* difference millis() - stamp grows by d.
Elapse(s, d) ==
  [s EXCEPT
    !.sinceBtn         = Aged(@, d, BUTTON_LONG_PRESS_MS),
    !.sinceIR          = Aged(@, d, GAME_SELECT_TIMEOUT_MS + 1),
    !.sinceGameIR      = Aged(@, d, SNAKE_TIMEOUT_MS + 1),
    !.sinceActivity    = Aged(@, d, SETTINGS_TIMEOUT_MS + 1),
    !.sinceJump        = Aged(@, d, JUMP_DURATION_MS + 1),
    !.sinceFrame       = Aged(@, d, INITIAL_GAME_SPEED + 1),
    !.sinceDodgeFrame  = Aged(@, d, DODGE_INITIAL_SPEED + 1),
    !.sinceSnakeMove   = Aged(@, d, SNAKE_INITIAL_SPEED),
    !.sinceInput       = Aged(@, d, SNAKE_TIMEOUT_MS + 1),
    !.sinceSettingsAct = Aged(@, d, SETTINGS_TIMEOUT_MS + 1)]

\* ------------------------------------------------------- persistent store
\* EEPROM.write / EEPROM.put of one value; eeWrites logs the iteration's writes.
EepromPut(s, key, val) ==
  [s EXCEPT !.eeprom = [@ EXCEPT ![key] = val],
            !.eeWrites = Append(@, <<key, val>>)]

saveHighScore(s) ==
  IF s.score > s.highScore
  THEN EepromPut([s EXCEPT !.highScore = s.score], "dino", s.score)
  ELSE s

\* The Dodge persist operation writing on a tie as well.
saveDodgeHighScoreOnTie(s) ==
  IF s.dodgeScore >= s.dodgeHighScore
  THEN EepromPut([s EXCEPT !.dodgeHighScore = s.dodgeScore], "dodge", s.dodgeScore)
  ELSE s

saveDodgeHighScore(s) ==
  IF s.dodgeScore > s.dodgeHighScore
  THEN EepromPut([s EXCEPT !.dodgeHighScore = s.dodgeScore], "dodge", s.dodgeScore)
  ELSE s

saveSnakeHighScore(s) ==
  IF s.snakeScore > s.snakeHighScore
  THEN EepromPut([s EXCEPT !.snakeHighScore = s.snakeScore], "snake", s.snakeScore)
  ELSE s

\* ----------------------------------------------------------- real-time clock
saveTimeHourOnly(s) ==
  [s EXCEPT !.rtc = [@ EXCEPT !.hour = s.tempHour, !.second = 0],
            !.rtcWrites = @ + 1]

saveTime(s) ==
  [s EXCEPT !.rtc = [@ EXCEPT !.hour = s.tempHour, !.minute = s.tempMinute,
                              !.second = 0],
            !.rtcWrites = @ + 1]

saveDate(s) ==
  [s EXCEPT !.rtc = [@ EXCEPT !.year = s.tempYear, !.month = s.tempMonth,
                              !.day = s.tempDay],
            !.rtcWrites = @ + 1]

\* ------------------------------------------------------------------- Dodge
\* The block placed without regard to its width.
spawnBlockUnfitted(blocks, slot, b) ==
  [blocks EXCEPT ![slot] = [x |-> b[2] % DODGE_COLS, y |-> 0, width |-> b[1],
                            active |-> TRUE]]

\* spawnBlock(slot): b = <<w, n>>, w the draw random(1,4) and n the number
\* random(0, maxX+1) reduces to 0..maxX, with maxX = DODGE_COLS - w.
spawnBlock(blocks, slot, b) ==
  LET maxX == DODGE_COLS - b[1]
  IN [blocks EXCEPT ![slot] = [x |-> b[2] % (maxX + 1), y |-> 0, width |-> b[1],
                               active |-> TRUE]]

resetDodgeGame(s, b) ==
  [s EXCEPT
    !.dodgePlayerX   = DODGE_PLAYER_START_X,
    !.dodgeSpeed     = DODGE_INITIAL_SPEED,
    !.dodgeScore     = 0,
    !.dodgeMoveLeft  = FALSE,
    !.dodgeMoveRight = FALSE,
    !.dodgeBlocks    = spawnBlock([i \in 0..(DODGE_MAX_BLOCKS - 1) |->
                                     [s.dodgeBlocks[i] EXCEPT !.active = FALSE]], 0, b),
    !.sinceDodgeFrame = 0,
    !.sinceGameIR     = 0]

\* The span test taken one column too wide on the right.
blockHitsPlayerWide(playerX, bx, bw) == playerX >= bx /\ playerX <= bx + bw

blockHitsPlayer(playerX, bx, bw) == playerX >= bx /\ playerX < bx + bw

\* ------------------------------------------------------------------- Snake
snakeLength == Len(snakeBody)

Occupied(body, c) == \E i \in 1..Len(body) : body[i] = c

\* spawnFood(): f is the last cell the retry loop drew: a free cell when the
\* loop found one, an occupied cell when its 200 tries were all occupied. The
\* cell is stored in both cases.
spawnFood(s, f) == [s EXCEPT !.foodX = f[1], !.foodY = f[2]]

resetSnake(s, f) ==
  spawnFood([s EXCEPT
    !.snakeBody       = << <<7, 5>>, <<6, 5>>, <<5, 5>> >>,
    !.snakeDir        = DIR_RIGHT,
    !.snakePendingDir = DIR_RIGHT,
    !.snakeSpeed      = SNAKE_INITIAL_SPEED,
    !.snakeScore      = 0,
    !.sinceSnakeMove  = 0,
    !.sinceGameIR     = 0,
    !.snakeTurnUp = FALSE, !.snakeTurnDown = FALSE,
    !.snakeTurnLeft = FALSE, !.snakeTurnRight = FALSE], f)

\* -------------------------------------------------------------- game launch
\* r is the iteration's random draws: r.b0 a block, r.food a food cell.
launchGame(s, choice, r) ==
  IF choice = 0 THEN
    Elapse([s EXCEPT !.currentMode = "GAME", !.score = 0,
                     !.gameSpeed = INITIAL_GAME_SPEED,
                     !.obstacleX = OBSTACLE_START_X,
                     !.playerY = PLAYER_GROUND_Y, !.isJumping = FALSE,
                     !.sinceIR = 0, !.sinceGameIR = 0], LAUNCH_FLASH_MS)
  ELSE IF choice = 1 THEN
    Elapse(resetDodgeGame([s EXCEPT !.currentMode = "DODGE_GAME",
                                    !.sinceGameIR = 0], r.b0), LAUNCH_FLASH_MS)
  ELSE
    Elapse(resetSnake([s EXCEPT !.currentMode = "SNAKE_GAME",
                                !.sinceGameIR = 0], r.food), LAUNCH_FLASH_MS)

launchSelectedGame(s, r) == launchGame(s, s.gameSelectChoice, r)

\* ---------------------------------------------------------------- settings
\* The Difficulty entry stepping the level without wrapping it.
selectMenuItemUnwrapped(s) ==
  IF s.currentMenu = MENU_DIFFICULTY THEN
    EepromPut([s EXCEPT !.difficulty = s.difficulty + 1],
              "difficulty", s.difficulty + 1)
  ELSE IF s.currentMenu = MENU_TIME THEN
    [s EXCEPT !.currentMode = "SET_TIME", !.settingStep = 0,
              !.tempHour = s.rtc.hour, !.tempMinute = s.rtc.minute]
  ELSE IF s.currentMenu = MENU_DATE THEN
    [s EXCEPT !.currentMode = "SET_DATE", !.settingStep = 0,
              !.tempYear = s.rtc.year, !.tempMonth = s.rtc.month,
              !.tempDay = s.rtc.day]
  ELSE
    EepromPut([s EXCEPT !.currentMode = "CLOCK"], "difficulty", s.difficulty)

selectMenuItem(s) ==
  IF s.currentMenu = MENU_DIFFICULTY THEN
    EepromPut([s EXCEPT !.difficulty = (s.difficulty % 5) + 1],
              "difficulty", (s.difficulty % 5) + 1)
  ELSE IF s.currentMenu = MENU_TIME THEN
    [s EXCEPT !.currentMode = "SET_TIME", !.settingStep = 0,
              !.tempHour = s.rtc.hour, !.tempMinute = s.rtc.minute]
  ELSE IF s.currentMenu = MENU_DATE THEN
    [s EXCEPT !.currentMode = "SET_DATE", !.settingStep = 0,
              !.tempYear = s.rtc.year, !.tempMonth = s.rtc.month,
              !.tempDay = s.rtc.day]
  ELSE
    EepromPut([s EXCEPT !.currentMode = "CLOCK"], "difficulty", s.difficulty)

incrementTimeField(s) ==
  IF s.settingStep = 0 THEN [s EXCEPT !.tempHour = (@ + 1) % 24]
  ELSE [s EXCEPT !.tempMinute = (@ + 1) % 60]

\* The date fields with the day wrapping to 0, as the minute does.
incrementDateFieldFromZero(s) ==
  IF s.settingStep = 0 THEN [s EXCEPT !.tempYear = IF @ + 1 > 2099 THEN 2000 ELSE @ + 1]
  ELSE IF s.settingStep = 1 THEN [s EXCEPT !.tempMonth = IF @ + 1 > 12 THEN 1 ELSE @ + 1]
  ELSE [s EXCEPT !.tempDay = (@ + 1) % 31]

incrementDateField(s) ==
  IF s.settingStep = 0 THEN [s EXCEPT !.tempYear = IF @ + 1 > 2099 THEN 2000 ELSE @ + 1]
  ELSE IF s.settingStep = 1 THEN [s EXCEPT !.tempMonth = IF @ + 1 > 12 THEN 1 ELSE @ + 1]
  ELSE [s EXCEPT !.tempDay = IF @ + 1 > 31 THEN 1 ELSE @ + 1]

\* --------------------------------------------------------- physical button
\* The short press that steps the cursor over three items only.
handleShortPressOfThree(s) ==
  LET t == [s EXCEPT !.sinceActivity = 0, !.btnEvent = "short"] IN
  IF t.currentMode = "SETTING" THEN [t EXCEPT !.currentMenu = (@ + 1) % 3]
  ELSE IF t.currentMode = "SET_TIME" THEN incrementTimeField(t)
  ELSE IF t.currentMode = "SET_DATE" THEN incrementDateField(t)
  ELSE IF t.currentMode = "GAME_SELECT" THEN [t EXCEPT !.gameSelectChoice = (@ + 1) % 3]
  ELSE t

handleShortPress(s) ==
  LET t == [s EXCEPT !.sinceActivity = 0, !.btnEvent = "short"] IN
  IF t.currentMode = "SETTING" THEN [t EXCEPT !.currentMenu = (@ + 1) % 4]
  ELSE IF t.currentMode = "SET_TIME" THEN incrementTimeField(t)
  ELSE IF t.currentMode = "SET_DATE" THEN incrementDateField(t)
  ELSE IF t.currentMode = "GAME_SELECT" THEN [t EXCEPT !.gameSelectChoice = (@ + 1) % 3]
  ELSE t

\* The medium hold opening Settings from the games as well.
handleMediumHoldAnywhere(s) ==
  LET t == [s EXCEPT !.btnEvent = "medium"] IN
  IF t.currentMode \in {"CLOCK", "GAME", "DODGE_GAME", "SNAKE_GAME"}
  THEN [t EXCEPT !.currentMode = "SETTING", !.currentMenu = MENU_DIFFICULTY,
                 !.sinceActivity = 0]
  ELSE t

handleMediumHold(s) ==
  LET t == [s EXCEPT !.btnEvent = "medium"] IN
  IF t.currentMode = "CLOCK"
  THEN [t EXCEPT !.currentMode = "SETTING", !.currentMenu = MENU_DIFFICULTY,
                 !.sinceActivity = 0]
  ELSE t

\* The long press saving the time from either field.
handleLongPressHasty(s, r) ==
  LET t == [s EXCEPT !.sinceActivity = 0, !.btnEvent = "long"] IN
  IF t.currentMode = "SETTING" THEN selectMenuItem(t)
  ELSE IF t.currentMode = "SET_TIME" THEN [saveTime(t) EXCEPT !.currentMode = "CLOCK"]
  ELSE IF t.currentMode = "SET_DATE" THEN
    IF t.settingStep < 2 THEN [t EXCEPT !.settingStep = @ + 1]
    ELSE [saveDate(t) EXCEPT !.currentMode = "CLOCK"]
  ELSE IF t.currentMode = "GAME_SELECT" THEN launchSelectedGame(t, r)
  ELSE t

handleLongPress(s, r) ==
  LET t == [s EXCEPT !.sinceActivity = 0, !.btnEvent = "long"] IN
  IF t.currentMode = "SETTING" THEN selectMenuItem(t)
  ELSE IF t.currentMode = "SET_TIME" THEN
    IF t.settingStep = 0 THEN [t EXCEPT !.settingStep = 1]
    ELSE [saveTime(t) EXCEPT !.currentMode = "CLOCK"]
  ELSE IF t.currentMode = "SET_DATE" THEN
    IF t.settingStep < 2 THEN [t EXCEPT !.settingStep = @ + 1]
    ELSE [saveDate(t) EXCEPT !.currentMode = "CLOCK"]
  ELSE IF t.currentMode = "GAME_SELECT" THEN launchSelectedGame(t, r)
  ELSE t

handleButtonLate(s, btnPressed, r) ==
  LET s1 == IF btnPressed /\ ~s.btnActive
            THEN [s EXCEPT !.sinceBtn = 0, !.btnActive = TRUE,
                           !.btnMediumFired = FALSE]
            ELSE s
      s2 == IF s1.btnActive /\ btnPressed /\ ~s1.btnMediumFired
               /\ s1.sinceBtn > BUTTON_MEDIUM_PRESS_MS
            THEN handleMediumHold([s1 EXCEPT !.btnMediumFired = TRUE])
            ELSE s1
      dur == s2.sinceBtn
      s3 == [s2 EXCEPT !.btnActive = FALSE]
  IN
  IF s2.btnActive /\ ~btnPressed THEN
    IF s3.btnMediumFired THEN
      IF dur >= BUTTON_LONG_PRESS_MS
         /\ s3.currentMode \in {"SETTING", "SET_TIME", "SET_DATE"}
      THEN handleLongPress(s3, r)
      ELSE s3
    ELSE IF dur < BUTTON_SHORT_PRESS_MS THEN handleShortPress(s3)
    ELSE s3
  ELSE s2

\* handleButton(): btnPressed is the sampled level of BTN_PIN.
handleButton(s, btnPressed, r) ==
  LET s1 == IF btnPressed /\ ~s.btnActive
            THEN [s EXCEPT !.sinceBtn = 0, !.btnActive = TRUE,
                           !.btnMediumFired = FALSE]
            ELSE s
      s2 == IF s1.btnActive /\ btnPressed /\ ~s1.btnMediumFired
               /\ s1.sinceBtn >= BUTTON_MEDIUM_PRESS_MS
            THEN handleMediumHold([s1 EXCEPT !.btnMediumFired = TRUE])
            ELSE s1
      dur == s2.sinceBtn
      s3 == [s2 EXCEPT !.btnActive = FALSE]
  IN
  IF s2.btnActive /\ ~btnPressed THEN
    IF s3.btnMediumFired THEN
      IF dur >= BUTTON_LONG_PRESS_MS
         /\ s3.currentMode \in {"SETTING", "SET_TIME", "SET_DATE"}
      THEN handleLongPress(s3, r)
      ELSE s3
    ELSE IF dur < BUTTON_SHORT_PRESS_MS THEN handleShortPress(s3)
    ELSE s3
  ELSE s2

\* -------------------------------------------------------- input dispatcher
\* The dispatcher letting Ok act before Return in the time edit.
handleIRInputOkFirst(s, pins, r) ==
  LET edge(p) == p \in pins /\ p \notin s.lastPins
      s1 == IF pins # {} THEN [s EXCEPT !.sinceIR = 0, !.sinceGameIR = 0] ELSE s
      m  == s1.currentMode
      s2 ==
        IF m = "CLOCK" THEN
          IF edge("GAME1") THEN launchGame(s1, 0, r)
          ELSE IF edge("GAME2") THEN launchGame(s1, 1, r)
          ELSE IF edge("GAME3") THEN launchGame(s1, 2, r)
          ELSE IF edge("OPTIONS") THEN
            [s1 EXCEPT !.currentMode = "SETTING", !.currentMenu = MENU_DIFFICULTY,
                       !.sinceActivity = 0]
          ELSE s1
        ELSE IF m = "GAME_SELECT" THEN
          LET a == IF edge("RETURN") THEN [s1 EXCEPT !.currentMode = "CLOCK"]
                   ELSE IF edge("UP") THEN [s1 EXCEPT !.gameSelectChoice = (@ + 2) % 3]
                   ELSE IF edge("DOWN") THEN [s1 EXCEPT !.gameSelectChoice = (@ + 1) % 3]
                   ELSE IF edge("OK") THEN launchSelectedGame(s1, r)
                   ELSE s1
          IN IF a.sinceIR > GAME_SELECT_TIMEOUT_MS
             THEN [a EXCEPT !.currentMode = "CLOCK"] ELSE a
        ELSE IF m = "GAME" THEN
          IF edge("RETURN") THEN [s1 EXCEPT !.currentMode = "CLOCK"]
          ELSE IF edge("UP") \/ edge("DOWN") \/ edge("LEFT") \/ edge("RIGHT") \/ edge("OK")
          THEN [s1 EXCEPT !.irJumpTriggered = TRUE]
          ELSE s1
        ELSE IF m = "DODGE_GAME" THEN
          IF edge("RETURN") THEN [s1 EXCEPT !.currentMode = "CLOCK"]
          ELSE [s1 EXCEPT !.dodgeMoveLeft  = IF edge("LEFT") THEN TRUE ELSE @,
                          !.dodgeMoveRight = IF edge("RIGHT") THEN TRUE ELSE @]
        ELSE IF m = "SNAKE_GAME" THEN
          IF edge("RETURN") THEN [s1 EXCEPT !.currentMode = "CLOCK"]
          ELSE [s1 EXCEPT !.snakeTurnUp    = IF edge("UP") THEN TRUE ELSE @,
                          !.snakeTurnDown  = IF edge("DOWN") THEN TRUE ELSE @,
                          !.snakeTurnLeft  = IF edge("LEFT") THEN TRUE ELSE @,
                          !.snakeTurnRight = IF edge("RIGHT") THEN TRUE ELSE @]
        ELSE IF m = "SETTING" THEN
          IF edge("RETURN")
          THEN EepromPut([s1 EXCEPT !.currentMode = "CLOCK"], "difficulty", s1.difficulty)
          ELSE
            LET a == IF edge("DOWN")
                     THEN [s1 EXCEPT !.currentMenu = (@ + 1) % 4, !.sinceActivity = 0]
                     ELSE s1
                b == IF edge("UP")
                     THEN [a EXCEPT !.currentMenu = (@ + 3) % 4, !.sinceActivity = 0]
                     ELSE a
            IN IF edge("OK") THEN [selectMenuItem(b) EXCEPT !.sinceActivity = 0] ELSE b
        ELSE IF m = "SET_TIME" THEN
          IF edge("RETURN") /\ ~edge("OK") THEN [s1 EXCEPT !.currentMode = "SETTING", !.sinceActivity = 0]
          ELSE
            LET a == IF edge("UP") \/ edge("DOWN")
                     THEN [incrementTimeField(s1) EXCEPT !.sinceActivity = 0]
                     ELSE s1
            IN IF edge("OK") THEN
                 [(IF a.settingStep < 1 THEN [a EXCEPT !.settingStep = @ + 1]
                   ELSE [saveTime(a) EXCEPT !.currentMode = "CLOCK"])
                  EXCEPT !.sinceActivity = 0]
               ELSE a
        ELSE IF m = "SET_DATE" THEN
          IF edge("RETURN") THEN [s1 EXCEPT !.currentMode = "SETTING", !.sinceActivity = 0]
          ELSE
            LET a == IF edge("UP") \/ edge("DOWN")
                     THEN [incrementDateField(s1) EXCEPT !.sinceActivity = 0]
                     ELSE s1
            IN IF edge("OK") THEN
                 [(IF a.settingStep < 2 THEN [a EXCEPT !.settingStep = @ + 1]
                   ELSE [saveDate(a) EXCEPT !.currentMode = "CLOCK"])
                  EXCEPT !.sinceActivity = 0]
               ELSE a
        ELSE s1
  IN [s2 EXCEPT !.lastPins = pins]

\* handleIRInput(): pins is the set of lines read LOW (asserted) this
\* iteration; lastPins the set of the previous one.
\* The dispatcher made level-triggered: every asserted line counts as an event,
\* whatever its state in the tick before.
handleIRInputLevel(s, pins, r) ==
  handleIRInputOkFirst([s EXCEPT !.lastPins = {}], pins, r)

handleIRInput(s, pins, r) ==
  LET edge(p) == p \in pins /\ p \notin s.lastPins
      s1 == IF pins # {} THEN [s EXCEPT !.sinceIR = 0, !.sinceGameIR = 0] ELSE s
      m  == s1.currentMode
      s2 ==
        IF m = "CLOCK" THEN
          IF edge("GAME1") THEN launchGame(s1, 0, r)
          ELSE IF edge("GAME2") THEN launchGame(s1, 1, r)
          ELSE IF edge("GAME3") THEN launchGame(s1, 2, r)
          ELSE IF edge("OPTIONS") THEN
            [s1 EXCEPT !.currentMode = "SETTING", !.currentMenu = MENU_DIFFICULTY,
                       !.sinceActivity = 0]
          ELSE s1
        ELSE IF m = "GAME_SELECT" THEN
          LET a == IF edge("RETURN") THEN [s1 EXCEPT !.currentMode = "CLOCK"]
                   ELSE IF edge("UP") THEN [s1 EXCEPT !.gameSelectChoice = (@ + 2) % 3]
                   ELSE IF edge("DOWN") THEN [s1 EXCEPT !.gameSelectChoice = (@ + 1) % 3]
                   ELSE IF edge("OK") THEN launchSelectedGame(s1, r)
                   ELSE s1
          IN IF a.sinceIR > GAME_SELECT_TIMEOUT_MS
             THEN [a EXCEPT !.currentMode = "CLOCK"] ELSE a
        ELSE IF m = "GAME" THEN
          IF edge("RETURN") THEN [s1 EXCEPT !.currentMode = "CLOCK"]
          ELSE IF edge("UP") \/ edge("DOWN") \/ edge("LEFT") \/ edge("RIGHT") \/ edge("OK")
          THEN [s1 EXCEPT !.irJumpTriggered = TRUE]
          ELSE s1
        ELSE IF m = "DODGE_GAME" THEN
          IF edge("RETURN") THEN [s1 EXCEPT !.currentMode = "CLOCK"]
          ELSE [s1 EXCEPT !.dodgeMoveLeft  = IF edge("LEFT") THEN TRUE ELSE @,
                          !.dodgeMoveRight = IF edge("RIGHT") THEN TRUE ELSE @]
        ELSE IF m = "SNAKE_GAME" THEN
          IF edge("RETURN") THEN [s1 EXCEPT !.currentMode = "CLOCK"]
          ELSE [s1 EXCEPT !.snakeTurnUp    = IF edge("UP") THEN TRUE ELSE @,
                          !.snakeTurnDown  = IF edge("DOWN") THEN TRUE ELSE @,
                          !.snakeTurnLeft  = IF edge("LEFT") THEN TRUE ELSE @,
                          !.snakeTurnRight = IF edge("RIGHT") THEN TRUE ELSE @]
        ELSE IF m = "SETTING" THEN
          IF edge("RETURN")
          THEN EepromPut([s1 EXCEPT !.currentMode = "CLOCK"], "difficulty", s1.difficulty)
          ELSE
            LET a == IF edge("DOWN")
                     THEN [s1 EXCEPT !.currentMenu = (@ + 1) % 4, !.sinceActivity = 0]
                     ELSE s1
                b == IF edge("UP")
                     THEN [a EXCEPT !.currentMenu = (@ + 3) % 4, !.sinceActivity = 0]
                     ELSE a
            IN IF edge("OK") THEN [selectMenuItem(b) EXCEPT !.sinceActivity = 0] ELSE b
        ELSE IF m = "SET_TIME" THEN
          IF edge("RETURN") THEN [s1 EXCEPT !.currentMode = "SETTING", !.sinceActivity = 0]
          ELSE
            LET a == IF edge("UP") \/ edge("DOWN")
                     THEN [incrementTimeField(s1) EXCEPT !.sinceActivity = 0]
                     ELSE s1
            IN IF edge("OK") THEN
                 [(IF a.settingStep < 1 THEN [a EXCEPT !.settingStep = @ + 1]
                   ELSE [saveTime(a) EXCEPT !.currentMode = "CLOCK"])
                  EXCEPT !.sinceActivity = 0]
               ELSE a
        ELSE IF m = "SET_DATE" THEN
          IF edge("RETURN") THEN [s1 EXCEPT !.currentMode = "SETTING", !.sinceActivity = 0]
          ELSE
            LET a == IF edge("UP") \/ edge("DOWN")
                     THEN [incrementDateField(s1) EXCEPT !.sinceActivity = 0]
                     ELSE s1
            IN IF edge("OK") THEN
                 [(IF a.settingStep < 2 THEN [a EXCEPT !.settingStep = @ + 1]
                   ELSE [saveDate(a) EXCEPT !.currentMode = "CLOCK"])
                  EXCEPT !.sinceActivity = 0]
               ELSE a
        ELSE s1
  IN [s2 EXCEPT !.lastPins = pins]

\* -------------------------------------------------------------------- Dino
\* The Dino speed-up without its test against the floor.
DinoRampUnfloored(speed) == speed - SPEED_DECREASE

\* The speed-up applied when an obstacle leaves the left edge.
DinoRamp(speed) ==
  IF speed > MIN_GAME_SPEED THEN speed - SPEED_DECREASE ELSE speed

\* The collision test with the air-obstacle branch left out.
DinoCollisionGroundOnly(x, type, jumping) ==
  x = PLAYER_X /\ type = GROUND_OBSTACLE /\ ~jumping

\* The collision test of runDinoGame().
DinoCollision(x, type, jumping) ==
  /\ x = PLAYER_X
  /\ \/ type = GROUND_OBSTACLE /\ ~jumping
     \/ type = AIR_OBSTACLE /\ jumping

\* The game over handler returning to the clock.
handleGameOverToClock(s) ==
  LET a == saveHighScore(s)
      b == [a EXCEPT !.death = [game |-> "dino", x |-> s.obstacleX,
                                type |-> s.obstacleType, jumping |-> s.isJumping,
                                score |-> s.score]]
      c == Elapse(b, COLLISION_FLASH_MS)
  IN [c EXCEPT !.score = 0, !.gameSpeed = INITIAL_GAME_SPEED,
               !.obstacleX = OBSTACLE_START_X, !.obstacleType = GROUND_OBSTACLE,
               !.playerY = PLAYER_GROUND_Y, !.isJumping = FALSE,
               !.sinceIR = 0, !.currentMode = "CLOCK"]

handleGameOver(s) ==
  LET a == saveHighScore(s)
      b == [a EXCEPT !.death = [game |-> "dino", x |-> s.obstacleX,
                                type |-> s.obstacleType, jumping |-> s.isJumping,
                                score |-> s.score]]
      c == Elapse(b, COLLISION_FLASH_MS)
  IN [c EXCEPT !.score = 0, !.gameSpeed = INITIAL_GAME_SPEED,
               !.obstacleX = OBSTACLE_START_X, !.obstacleType = GROUND_OBSTACLE,
               !.playerY = PLAYER_GROUND_Y, !.isJumping = FALSE,
               !.sinceIR = 0]

\* runDinoGame(): type is the draw random(0, 2) for a new obstacle.
runDinoGame(s, type) ==
  LET s1 == IF s.irJumpTriggered /\ ~s.isJumping
            THEN [s EXCEPT !.isJumping = TRUE, !.sinceJump = 0,
                           !.irJumpTriggered = FALSE]
            ELSE s
      s2 == IF s1.isJumping /\ s1.sinceJump > JUMP_DURATION_MS
            THEN [s1 EXCEPT !.isJumping = FALSE] ELSE s1
      s3 == [s2 EXCEPT !.playerY = IF s2.isJumping THEN PLAYER_AIR_Y
                                   ELSE PLAYER_GROUND_Y]
      s4 == IF s3.sinceFrame > s3.gameSpeed THEN
              IF s3.obstacleX - 1 < 0
              THEN [s3 EXCEPT !.obstacleX = OBSTACLE_START_X, !.obstacleType = type,
                              !.score = @ + 1, !.gameSpeed = DinoRamp(@),
                              !.sinceFrame = 0]
              ELSE [s3 EXCEPT !.obstacleX = @ - 1, !.sinceFrame = 0]
            ELSE s3
  IN IF DinoCollision(s4.obstacleX, s4.obstacleType, s4.isJumping)
     THEN handleGameOver(s4) ELSE s4

\* loop(), case GAME: the timeout does not skip runDinoGame().
loopDino(s, type) ==
  runDinoGame(IF s.sinceGameIR > GAME_TIMEOUT_MS
              THEN [s EXCEPT !.currentMode = "CLOCK"] ELSE s, type)

\* ------------------------------------------------------------------- Dodge
\* The Dodge step applied in the wrong direction.
DodgeRampSlower(speed) ==
  IF speed > DODGE_MIN_SPEED THEN speed + DODGE_SPEED_DECREASE ELSE speed

\* The speed-up applied when a block passes the bottom row.
DodgeRamp(speed) ==
  IF speed > DODGE_MIN_SPEED THEN speed - DODGE_SPEED_DECREASE ELSE speed

handleDodgeGameOver(s, b) ==
  LET a == saveDodgeHighScore(s)
      c == [a EXCEPT !.death = [game |-> "dodge", playerX |-> s.dodgePlayerX,
                                blocks |-> s.dodgeBlocks, score |-> s.dodgeScore]]
      d == Elapse(c, DODGE_HIT_FLASH_MS + DODGE_DEATH_FLASH)
  IN [resetDodgeGame(d, b) EXCEPT !.sinceGameIR = 0]

\* One block of the advance loop of runDodgeGame().
DodgeAdvanceBlock(s, i) ==
  IF ~s.dodgeBlocks[i].active THEN s
  ELSE IF s.dodgeBlocks[i].y + 1 > DODGE_PLAYER_Y
  THEN [s EXCEPT !.dodgeBlocks[i].y = @ + 1, !.dodgeBlocks[i].active = FALSE,
                 !.dodgeScore = @ + 1, !.dodgeSpeed = DodgeRamp(@)]
  ELSE [s EXCEPT !.dodgeBlocks[i].y = @ + 1]

DodgeActiveCount(blocks) ==
  Cardinality({i \in 0..(DODGE_MAX_BLOCKS - 1) : blocks[i].active})

\* The second block allowed one point early.
DodgeTargetBlocksEarly(sc, coin) ==
  IF sc >= 15 THEN 2
  ELSE IF sc >= 4 THEN (IF coin = 0 THEN 2 ELSE 1)
  ELSE 1

\* How many blocks should be active; coin is the draw random(0, 2).
DodgeTargetBlocks(sc, coin) ==
  IF sc >= 15 THEN 2
  ELSE IF sc >= 5 THEN (IF coin = 0 THEN 2 ELSE 1)
  ELSE 1

\* One slot of the fill loop of runDodgeGame().
DodgeFillSlot(s, i, target, b) ==
  IF DodgeActiveCount(s.dodgeBlocks) < target /\ ~s.dodgeBlocks[i].active
  THEN [s EXCEPT !.dodgeBlocks = spawnBlock(@, i, b)]
  ELSE s

\* The movement without the tests at the two edges of the grid.
DodgeMovesUnclamped(s) ==
  LET s1 == IF s.dodgeMoveLeft
            THEN [s EXCEPT !.dodgePlayerX = @ - 1,
                           !.dodgeMoveLeft = FALSE, !.sinceGameIR = 0]
            ELSE s
  IN IF s1.dodgeMoveRight
     THEN [s1 EXCEPT !.dodgePlayerX = @ + 1,
                     !.dodgeMoveRight = FALSE, !.sinceGameIR = 0]
     ELSE s1

\* The two movement flags of runDodgeGame(), consumed in the code's order.
DodgeMoves(s) ==
  LET s1 == IF s.dodgeMoveLeft
            THEN [s EXCEPT !.dodgePlayerX = IF @ > 0 THEN @ - 1 ELSE @,
                           !.dodgeMoveLeft = FALSE, !.sinceGameIR = 0]
            ELSE s
  IN IF s1.dodgeMoveRight
     THEN [s1 EXCEPT !.dodgePlayerX = IF @ < DODGE_COLS - 1 THEN @ + 1 ELSE @,
                     !.dodgeMoveRight = FALSE, !.sinceGameIR = 0]
     ELSE s1

\* The advance loop of a frame: every active block falls one row.
DodgeAdvance(s) ==
  DodgeAdvanceBlock(DodgeAdvanceBlock([s EXCEPT !.sinceDodgeFrame = 0], 0), 1)

\* The collision loop of runDodgeGame().
DodgeHit(s) ==
  \E i \in 0..(DODGE_MAX_BLOCKS - 1) :
    /\ s.dodgeBlocks[i].active
    /\ s.dodgeBlocks[i].y >= DODGE_PLAYER_Y - 1
    /\ blockHitsPlayer(s.dodgePlayerX, s.dodgeBlocks[i].x, s.dodgeBlocks[i].width)

\* runDodgeGame(): r.coin, r.b0, r.b1 are the draws of the advance step, r.br
\* the block drawn by the reset after a collision.
runDodgeGame(s, r) ==
  IF s.sinceGameIR > DODGE_TIMEOUT_MS THEN [s EXCEPT !.currentMode = "CLOCK"]
  ELSE
    LET s2 == DodgeMoves(s)
        s3 == IF s2.sinceDodgeFrame > s2.dodgeSpeed THEN
                LET a == DodgeAdvance(s2)
                    target == DodgeTargetBlocks(a.dodgeScore, r.coin)
                IN DodgeFillSlot(DodgeFillSlot(a, 0, target, r.b0), 1, target, r.b1)
              ELSE s2
    IN IF DodgeHit(s3) THEN handleDodgeGameOver(s3, r.br) ELSE s3

\* ------------------------------------------------------------------- Snake
\* The speed-up applied after a food was eaten; sc is the new score.
SnakeRamp(sc, speed) ==
  IF sc % 5 = 0 /\ speed > SNAKE_MIN_SPEED
  THEN Max(speed - SNAKE_SPEED_STEP * 5, SNAKE_MIN_SPEED)
  ELSE speed

Opposite(d) == (d + 2) % 4

\* The cell one step from c in direction d.
SnakeStep(c, d) ==
  IF d = DIR_UP THEN <<c[1], c[2] - 1>>
  ELSE IF d = DIR_DOWN THEN <<c[1], c[2] + 1>>
  ELSE IF d = DIR_LEFT THEN <<c[1] - 1, c[2]>>
  ELSE <<c[1] + 1, c[2]>>

InSnakeGrid(c) ==
  c[1] >= 0 /\ c[1] < SNAKE_COLS /\ c[2] >= 0 /\ c[2] < SNAKE_ROWS

\* The self-collision loop: every segment but the last.
SnakeHitsSelf(body, c) == \E i \in 1..(Len(body) - 1) : body[i] = c

handleSnakeDeath(s, head, f) ==
  LET a == saveSnakeHighScore(s)
      b == [a EXCEPT !.death = [game |-> "snake", head |-> head,
                                body |-> s.snakeBody,
                                food |-> <<s.foodX, s.foodY>>,
                                score |-> s.snakeScore]]
      c == Elapse(b, 3 * SNAKE_BLINK_MS + SNAKE_DEATH_FLASH)
  IN [resetSnake(c, f) EXCEPT !.sinceGameIR = 0]

\* The turn flags tested against the staged direction instead of the heading.
SnakeApplyTurnsStaged(s) ==
  LET p0 == s.snakePendingDir
      p1 == IF s.snakeTurnUp /\ p0 # DIR_DOWN THEN DIR_UP ELSE p0
      p2 == IF s.snakeTurnDown /\ p1 # DIR_UP THEN DIR_DOWN ELSE p1
      p3 == IF s.snakeTurnLeft /\ p2 # DIR_RIGHT THEN DIR_LEFT ELSE p2
  IN IF s.snakeTurnRight /\ p3 # DIR_LEFT THEN DIR_RIGHT ELSE p3

\* The pending direction after the four turn flags were applied, in the
\* code's order (up, down, left, right), against the current heading.
SnakeApplyTurns(s) ==
  LET p1 == IF s.snakeTurnUp /\ s.snakeDir # DIR_DOWN THEN DIR_UP ELSE s.snakePendingDir
      p2 == IF s.snakeTurnDown /\ s.snakeDir # DIR_UP THEN DIR_DOWN ELSE p1
      p3 == IF s.snakeTurnLeft /\ s.snakeDir # DIR_RIGHT THEN DIR_LEFT ELSE p2
  IN IF s.snakeTurnRight /\ s.snakeDir # DIR_LEFT THEN DIR_RIGHT ELSE p3

\* The shift that always drops the tail, food or not.
SnakeShiftDropsTail(body, head, grow) ==
  <<head>> \o SubSeq(body, 1, Len(body) - 1)

\* The body after a move to head: one longer when growing, else the tail dropped.
SnakeShift(body, head, grow) ==
  <<head>> \o (IF grow THEN body ELSE SubSeq(body, 1, Len(body) - 1))

\* runSnakeGame(): f is the cell spawnFood() ends on, if it is called.
runSnakeGame(s, f) ==
  IF s.sinceGameIR > SNAKE_TIMEOUT_MS THEN [s EXCEPT !.currentMode = "CLOCK"]
  ELSE
    LET s1 == [s EXCEPT !.snakePendingDir = SnakeApplyTurns(s),
                        !.snakeTurnUp = FALSE, !.snakeTurnDown = FALSE,
                        !.snakeTurnLeft = FALSE, !.snakeTurnRight = FALSE]
    IN IF s1.sinceSnakeMove >= s1.snakeSpeed THEN
         LET s2   == [s1 EXCEPT !.sinceSnakeMove = 0, !.snakeDir = s1.snakePendingDir]
             head == SnakeStep(s2.snakeBody[1], s2.snakeDir)
             ate  == head = <<s2.foodX, s2.foodY>>
             grow == ate /\ Len(s2.snakeBody) < SNAKE_MAX_LENGTH
         IN IF ~InSnakeGrid(head) THEN handleSnakeDeath(s2, head, f)
            ELSE IF SnakeHitsSelf(s2.snakeBody, head) THEN handleSnakeDeath(s2, head, f)
            ELSE
              LET s3 == [s2 EXCEPT !.snakeBody = SnakeShift(@, head, grow)]
              IN IF ate
                 THEN spawnFood([s3 EXCEPT !.snakeScore = @ + 1,
                                           !.snakeSpeed = SnakeRamp(s3.snakeScore + 1, @)], f)
                 ELSE s3
       ELSE s1

\* ------------------------------------------------------------- other modes
runGameSelectMenu(s) ==
  IF s.sinceIR > GAME_SELECT_TIMEOUT_MS THEN [s EXCEPT !.currentMode = "CLOCK"] ELSE s

\* The Settings timeout firing one comparison early.
runSettingsMenuEarly(s) ==
  IF s.sinceActivity >= SETTINGS_TIMEOUT_MS
  THEN EepromPut([s EXCEPT !.currentMode = "CLOCK"], "difficulty", s.difficulty)
  ELSE s

runSettingsMenu(s) ==
  IF s.sinceActivity > SETTINGS_TIMEOUT_MS
  THEN EepromPut([s EXCEPT !.currentMode = "CLOCK"], "difficulty", s.difficulty)
  ELSE s

\* runTimeSettingMode(), runDateSettingMode(): they only draw.
runTimeSettingMode(s) == s
runDateSettingMode(s) == s

\* ------------------------------------------------------------------ bounds
\* The environment of the model: how many times a control is newly asserted,
\* how long one loop() iteration takes (Ticks, in ms; the flashes' delays are
\* multiples of it), and which of the draws of random() occur.
MaxPresses == 3
DeepPresses == 4
DodgeScoreCap == 64
DinoScoreCap == 62
PlayScoreCap == 2
DodgeMidCap == 16
EditPresses == 87
ConfirmPresses == 6
DifficultyPresses == 7
FieldPresses == 80
DodgeGridCap == 6
MovePresses == 9

Ticks         == {200}
SlowTicks     == {1000}
MenuTicks     == {750}
IdleTicks     == {5000}
ButtonTicks   == {500}
SnakeLateScores == {4, 69, 74, 79}
ObstacleTypes == {GROUND_OBSTACLE, AIR_OBSTACLE}
Coins         == {0, 1}
BlockChoices  == {<<1, 0>>, <<2, 6>>, <<3, 6>>, <<3, 12>>}
FoodCells     == {<<8, 5>>, <<7, 5>>, <<12, 2>>}
\* The blocks among BlockChoices that fall beside the start column.
SideBlocks    == {b \in BlockChoices : ~blockHitsPlayer(DODGE_PLAYER_START_X, b[2], b[1])}

NoDeath == [game |-> "none"]
NoBlock == [x |-> 0, y |-> 0, width |-> 0, active |-> FALSE]
RtcBoot == [year |-> 2025, month |-> 6, day |-> 15, hour |-> 12, minute |-> 34,
            second |-> 56]

\* -------------------------------------------------------------------- Init
\* The globals as their initialisers and setup() leave them, the stored values
\* valid, and the clock left alone since: every timestamp is older than the
\* windows it is compared with.
Boot ==
  [currentMode |-> "CLOCK",
   currentMenu |-> MENU_DIFFICULTY,
   gameSelectChoice |-> 0,
   settingStep |-> 0,
   tempHour |-> 0,
   tempMinute |-> 0,
   tempYear |-> 2025,
   tempMonth |-> 1,
   tempDay |-> 1,
   difficulty |-> 1,
   btnActive |-> FALSE,
   btnMediumFired |-> FALSE,
   sinceBtn |-> BUTTON_LONG_PRESS_MS,
   lastPins |-> {},
   sinceIR |-> GAME_SELECT_TIMEOUT_MS + 1,
   sinceGameIR |-> SNAKE_TIMEOUT_MS + 1,
   sinceActivity |-> SETTINGS_TIMEOUT_MS + 1,
   score |-> 0,
   highScore |-> 0,
   playerY |-> PLAYER_GROUND_Y,
   isJumping |-> FALSE,
   sinceJump |-> JUMP_DURATION_MS + 1,
   obstacleX |-> OBSTACLE_START_X,
   obstacleType |-> GROUND_OBSTACLE,
   gameSpeed |-> INITIAL_GAME_SPEED,
   sinceFrame |-> INITIAL_GAME_SPEED + 1,
   irJumpTriggered |-> FALSE,
   dodgePlayerX |-> DODGE_PLAYER_START_X,
   dodgeSpeed |-> DODGE_INITIAL_SPEED,
   dodgeScore |-> 0,
   dodgeHighScore |-> 0,
   dodgeBlocks |-> [i \in 0..(DODGE_MAX_BLOCKS - 1) |-> NoBlock],
   sinceDodgeFrame |-> DODGE_INITIAL_SPEED + 1,
   dodgeMoveLeft |-> FALSE,
   dodgeMoveRight |-> FALSE,
   snakeBody |-> <<>>,
   snakeDir |-> DIR_RIGHT,
   snakePendingDir |-> DIR_RIGHT,
   foodX |-> 0,
   foodY |-> 0,
   snakeSpeed |-> SNAKE_INITIAL_SPEED,
   snakeScore |-> 0,
   snakeHighScore |-> 0,
   sinceSnakeMove |-> SNAKE_INITIAL_SPEED,
   snakeTurnUp |-> FALSE,
   snakeTurnDown |-> FALSE,
   snakeTurnLeft |-> FALSE,
   snakeTurnRight |-> FALSE,
   rtc |-> RtcBoot,
   eeprom |-> [difficulty |-> 1, dino |-> 0, dodge |-> 0, snake |-> 0],
   death |-> NoDeath,
   eeWrites |-> <<>>,
   rtcWrites |-> 0,
   btnEvent |-> "none",
   sinceInput |-> SNAKE_TIMEOUT_MS + 1,
   sinceSettingsAct |-> SETTINGS_TIMEOUT_MS + 1,
   presses |-> 0,
   pinSample |-> {},
   buttonMode |-> "none",
   equation |-> [target |-> 0, lvl |-> 0, text |-> <<>>]]

\* The globals are those of t.
Holds(t) ==
  /\ currentMode = t.currentMode /\ currentMenu = t.currentMenu
  /\ gameSelectChoice = t.gameSelectChoice /\ settingStep = t.settingStep
  /\ tempHour = t.tempHour /\ tempMinute = t.tempMinute /\ tempYear = t.tempYear
  /\ tempMonth = t.tempMonth /\ tempDay = t.tempDay /\ difficulty = t.difficulty
  /\ btnActive = t.btnActive /\ btnMediumFired = t.btnMediumFired
  /\ sinceBtn = t.sinceBtn
  /\ lastPins = t.lastPins /\ sinceIR = t.sinceIR /\ sinceGameIR = t.sinceGameIR
  /\ sinceActivity = t.sinceActivity
  /\ score = t.score /\ highScore = t.highScore /\ playerY = t.playerY
  /\ isJumping = t.isJumping /\ sinceJump = t.sinceJump /\ obstacleX = t.obstacleX
  /\ obstacleType = t.obstacleType /\ gameSpeed = t.gameSpeed
  /\ sinceFrame = t.sinceFrame /\ irJumpTriggered = t.irJumpTriggered
  /\ dodgePlayerX = t.dodgePlayerX /\ dodgeSpeed = t.dodgeSpeed
  /\ dodgeScore = t.dodgeScore /\ dodgeHighScore = t.dodgeHighScore
  /\ dodgeBlocks = t.dodgeBlocks /\ sinceDodgeFrame = t.sinceDodgeFrame
  /\ dodgeMoveLeft = t.dodgeMoveLeft /\ dodgeMoveRight = t.dodgeMoveRight
  /\ snakeBody = t.snakeBody /\ snakeDir = t.snakeDir
  /\ snakePendingDir = t.snakePendingDir /\ foodX = t.foodX /\ foodY = t.foodY
  /\ snakeSpeed = t.snakeSpeed /\ snakeScore = t.snakeScore
  /\ snakeHighScore = t.snakeHighScore /\ sinceSnakeMove = t.sinceSnakeMove
  /\ snakeTurnUp = t.snakeTurnUp /\ snakeTurnDown = t.snakeTurnDown
  /\ snakeTurnLeft = t.snakeTurnLeft /\ snakeTurnRight = t.snakeTurnRight
  /\ rtc = t.rtc /\ eeprom = t.eeprom
  /\ death = t.death /\ eeWrites = t.eeWrites /\ rtcWrites = t.rtcWrites
  /\ btnEvent = t.btnEvent /\ sinceInput = t.sinceInput
  /\ sinceSettingsAct = t.sinceSettingsAct /\ presses = t.presses
  /\ pinSample = t.pinSample /\ buttonMode = t.buttonMode
  /\ equation = t.equation

\* A behaviour starts at the top of loop() with the globals of t.
Starts(t) == pc = "button" /\ Holds(t)

Init == Starts(Boot)

\* ------------------------------------------------------------------- steps
\* The observer of "Settings activity": entering Settings (from Clock or back
\* from an edit mode), a short or long press of the button in Settings, an
\* Up, Down or Ok edge in Settings.
SettingsActivity(s, t, edges) ==
  \/ s.currentMode # "SETTING" /\ t.currentMode = "SETTING"
  \/ s.currentMode = "SETTING" /\ t.btnEvent \in {"short", "long"}
  \/ s.currentMode = "SETTING" /\ edges \cap {"UP", "DOWN", "OK"} # {}

\* The draws of random() a step may use, given the state it starts in: a
\* handler that can launch a game draws a block and a food cell; an engine
\* draws what its update consumes. Draws no code path reads are fixed.
\* blocks is the set of blocks spawnBlock() may draw.
DrawsFrom(kind, edges, s, blocks) ==
  LET launches(key, n) ==
        /\ kind = "launch"
        /\ \/ s.currentMode = "CLOCK" /\ key \in edges
           \/ s.currentMode = "GAME_SELECT" /\ (key \in edges \/ s.gameSelectChoice = n)
      dino   == kind = "run" /\ s.currentMode = "GAME"
      dodge  == kind = "run" /\ s.currentMode = "DODGE_GAME"
                  /\ s.sinceGameIR <= DODGE_TIMEOUT_MS
      snake  == kind = "run" /\ s.currentMode = "SNAKE_GAME"
                  /\ s.sinceGameIR <= SNAKE_TIMEOUT_MS
      m      == DodgeMoves(s)
      frame  == dodge /\ m.sinceDodgeFrame > m.dodgeSpeed
      a      == IF frame THEN DodgeAdvance(m) ELSE m
      n      == DodgeActiveCount(a.dodgeBlocks)
      coin   == frame /\ a.dodgeScore >= 5 /\ a.dodgeScore < 15 /\ n < 2
      fill0  == frame /\ ~a.dodgeBlocks[0].active
      fill1  == frame /\ ~a.dodgeBlocks[1].active /\ a.dodgeScore >= 5
      oneB   == {CHOOSE b \in blocks : TRUE}
      oneF   == {CHOOSE f \in FoodCells : TRUE}
  IN [type : IF dino /\ s.sinceFrame > s.gameSpeed /\ s.obstacleX = 0
             THEN ObstacleTypes ELSE {GROUND_OBSTACLE},
      coin : IF coin THEN Coins ELSE {0},
      b0   : IF fill0 \/ launches("GAME2", 1) THEN blocks ELSE oneB,
      b1   : IF fill1 THEN blocks ELSE oneB,
      br   : IF dodge /\ DodgeHit(a) THEN blocks ELSE oneB,
      food : IF launches("GAME3", 2) \/ (snake /\ s.sinceSnakeMove >= s.snakeSpeed)
             THEN FoodCells ELSE oneF]

Draws(kind, edges, s) == DrawsFrom(kind, edges, s, BlockChoices)

\* Step 1 of loop(): dt milliseconds have passed since the last iteration;
\* handleButton() samples the button. At most budget controls are newly
\* asserted in a behaviour (button and remote together).
ButtonStep(dts, btns, budget) ==
  /\ pc = "button"
  /\ \E dt \in dts, b \in btns :
       /\ (b /\ ~btnActive) => presses < budget
       /\ LET s == Elapse([State EXCEPT !.death = NoDeath, !.eeWrites = <<>>,
                                        !.rtcWrites = 0, !.btnEvent = "none"], dt)
          IN \E r \in Draws("launch", {}, s) :
               LET t == handleButton(s, b, r)
               IN Commit([t EXCEPT
                    !.sinceInput = IF b THEN 0 ELSE @,
                    !.sinceSettingsAct = IF SettingsActivity(s, t, {}) THEN 0 ELSE @,
                    !.presses = IF b /\ ~s.btnActive THEN @ + 1 ELSE @,
                    !.buttonMode = s.currentMode])
  /\ pc' = "ir"

\* Step 2 of loop(): handleIRInput() samples the ten lines. With hold, a line
\* may stay asserted over consecutive iterations; without, the pulse of the
\* remote's decoder (150 ms) is over before the next iteration.
IRStep(pinSets, hold, budget) ==
  /\ pc = "ir"
  /\ \E pins \in pinSets :
       /\ (pins \ lastPins # {}) => presses < budget
       /\ hold \/ pins \cap lastPins = {}
       /\ \E r \in Draws("launch", pins \ lastPins, State) :
            LET t == handleIRInput(State, pins, r)
            IN Commit([t EXCEPT
                 !.sinceInput = IF pins # {} THEN 0 ELSE @,
                 !.sinceSettingsAct =
                    IF SettingsActivity(State, t, pins \ lastPins) THEN 0 ELSE @,
                 !.presses = IF pins \ lastPins # {} THEN @ + 1 ELSE @,
                 !.pinSample = pins,
                 !.buttonMode = "none"])
  /\ pc' = "mode"

\* Step 3 of loop(): the switch on currentMode.
RunDino ==
  /\ pc = "mode" /\ currentMode = "GAME"
  /\ \E r \in Draws("run", {}, State) : Commit(loopDino(State, r.type))
  /\ pc' = "button"

RunDodge ==
  /\ pc = "mode" /\ currentMode = "DODGE_GAME"
  /\ \E r \in Draws("run", {}, State) : Commit(runDodgeGame(State, r))
  /\ pc' = "button"

RunSnake ==
  /\ pc = "mode" /\ currentMode = "SNAKE_GAME"
  /\ \E r \in Draws("run", {}, State) : Commit(runSnakeGame(State, r.food))
  /\ pc' = "button"

RunGameSelect ==
  /\ pc = "mode" /\ currentMode = "GAME_SELECT"
  /\ Commit(runGameSelectMenu(State))
  /\ pc' = "button"

RunSettings ==
  /\ pc = "mode" /\ currentMode = "SETTING"
  /\ Commit(runSettingsMenu(State))
  /\ pc' = "button"

RunSetTime ==
  /\ pc = "mode" /\ currentMode = "SET_TIME"
  /\ Commit(runTimeSettingMode(State))
  /\ pc' = "button"

RunSetDate ==
  /\ pc = "mode" /\ currentMode = "SET_DATE"
  /\ Commit(runDateSettingMode(State))
  /\ pc' = "button"

\* case CLOCK: the clock face is drawn; no state of the core changes.
RunClock ==
  /\ pc = "mode" /\ currentMode = "CLOCK"
  /\ Commit(State)
  /\ pc' = "button"

\* The button is left alone; iterations of Ticks, or of a second each.
ButtonIdle == ButtonStep(Ticks, {FALSE}, 0)
ButtonIdleSlow == ButtonStep(SlowTicks, {FALSE}, 0)

\* ------------------------------------------------------------ Dino, played
DinoInput  == IRStep({{}, {"GAME1"}, {"UP"}, {"RETURN"}}, FALSE, MaxPresses)
NextDino   == ButtonIdle \/ DinoInput \/ RunDino \/ RunClock
SpecDino   == Init /\ [][NextDino]_vars


\* ---------------------------------------------------------- C1 (Dino)
\* The player is drawn in the air row while a jump lasts.
DinoAirborne == playerY = PLAYER_AIR_Y

\* C1: Dino collision rule. No iteration ends with the obstacle in the
\* player's column and a ground obstacle under a grounded player or an air
\* obstacle at a jumping player (such an alignment is a game over in the same
\* iteration), and every game over of Dino was caused by exactly such an
\* alignment: the obstacle was in column 1, and either it was a ground
\* obstacle and the player was not jumping or it was an air obstacle and the
\* player was jumping. An obstacle elsewhere, a ground obstacle under an
\* airborne player and an air obstacle over a grounded one never end the game.
C1_DinoCollisionRule ==
  /\ obstacleX = PLAYER_X =>
       /\ obstacleType = GROUND_OBSTACLE => DinoAirborne
       /\ obstacleType = AIR_OBSTACLE => ~DinoAirborne
  /\ death.game = "dino" =>
       /\ death.x = PLAYER_X
       /\ death.type = GROUND_OBSTACLE => ~death.jumping
       /\ death.type = AIR_OBSTACLE => death.jumping

\* A life in which a ground obstacle was jumped over (only then is an air
\* obstacle drawn) ends with a jump into an air obstacle.
C1_Witness ==
  /\ death.game = "dino" /\ death.x = PLAYER_X
  /\ death.type = AIR_OBSTACLE /\ death.jumping

\* Cases of C1 that are also reached: a ground obstacle passes under the
\* airborne player, an air obstacle passes over the grounded player.
C1_JumpedOver == currentMode = "GAME" /\ obstacleX = PLAYER_X
                   /\ obstacleType = GROUND_OBSTACLE /\ DinoAirborne
C1_PassedUnder == currentMode = "GAME" /\ obstacleX = PLAYER_X
                    /\ obstacleType = AIR_OBSTACLE /\ ~DinoAirborne


\* ----------------------------------------------------------- Dodge, played
DodgeInput == IRStep({{}, {"GAME2"}, {"LEFT"}, {"RIGHT"}, {"RETURN"}}, FALSE, MaxPresses)
NextDodge  == ButtonIdleSlow \/ DodgeInput \/ RunDodge \/ RunClock
SpecDodge  == Init /\ [][NextDodge]_vars


\* ---------------------------------------------------------- C2 (Dodge)
\* The columns a block covers, and the rows in which runDodgeGame() tests a
\* block against the player (the player is two cells tall).
DodgeSpan(b) == b.x .. (b.x + b.width - 1)
DodgeCheckRows == (DODGE_PLAYER_Y - 1) .. DODGE_PLAYER_Y
DodgeSlots == 0 .. (DODGE_MAX_BLOCKS - 1)

\* C2: Dodge collision rule. No iteration ends with an active block in a
\* collision-check row whose span holds the player's column (such a block
\* ends the game in the same iteration), and every game over of Dodge was
\* caused by an active block in a collision-check row whose span held the
\* player's column: a block whose span excludes the column never ends the game.
C2_DodgeCollisionRule ==
  /\ \A i \in DodgeSlots :
       (dodgeBlocks[i].active /\ dodgeBlocks[i].y \in DodgeCheckRows)
         => dodgePlayerX \notin DodgeSpan(dodgeBlocks[i])
  /\ death.game = "dodge" =>
       \E i \in DodgeSlots :
         /\ death.blocks[i].active /\ death.blocks[i].y \in DodgeCheckRows
         /\ death.playerX \in DodgeSpan(death.blocks[i])

\* The player stepped under the right end of a block and the game ended.
C2_Witness ==
  /\ death.game = "dodge" /\ death.playerX # DODGE_PLAYER_START_X
  /\ \E i \in DodgeSlots :
       /\ death.blocks[i].active /\ death.blocks[i].y \in DodgeCheckRows
       /\ death.playerX = death.blocks[i].x + death.blocks[i].width - 1

\* Also reached: a block passes the player one column to the side.
C2_NearMiss ==
  /\ currentMode = "DODGE_GAME" /\ death.game = "none"
  /\ \E i \in DodgeSlots :
       /\ dodgeBlocks[i].active /\ dodgeBlocks[i].y \in DodgeCheckRows
       /\ dodgePlayerX = dodgeBlocks[i].x + dodgeBlocks[i].width


\* ----------------------------------------------------------- Snake, played
SnakeInput == IRStep({{}, {"GAME3"}, {"UP"}, {"DOWN"}, {"LEFT"}, {"RIGHT"}, {"RETURN"}},
                     FALSE, DeepPresses)
NextSnake  == ButtonIdleSlow \/ SnakeInput \/ RunSnake \/ RunClock
SpecSnake  == Init /\ [][NextSnake]_vars


\* Snake with iterations shorter than a move interval, so that inputs are
\* staged over the iterations between two moves.
SnakeTurnInput == IRStep({{}, {"GAME3"}, {"UP"}, {"DOWN"}, {"LEFT"}, {"RIGHT"}},
                         FALSE, MaxPresses)
NextSnakeTurns == ButtonIdle \/ SnakeTurnInput \/ RunSnake \/ RunClock
SpecSnakeTurns == Init /\ [][NextSnakeTurns]_vars

\* ---------------------------------------------------------- C3 (Snake)
\* The directions asked for since the last call of runSnakeGame().
SnakeAsked ==
  {d \in {DIR_UP, DIR_RIGHT, DIR_DOWN, DIR_LEFT} :
     \/ d = DIR_UP /\ snakeTurnUp
     \/ d = DIR_DOWN /\ snakeTurnDown
     \/ d = DIR_LEFT /\ snakeTurnLeft
     \/ d = DIR_RIGHT /\ snakeTurnRight}

\* A call of runSnakeGame() that neither times out nor kills the snake.
SnakeLives ==
  /\ pc = "mode" /\ currentMode = "SNAKE_GAME"
  /\ currentMode' = "SNAKE_GAME" /\ death'.game = "none"

\* C3: Snake reversal rule. In every call of the engine that does not end the
\* life: an input opposite to the heading leaves the staged direction as it
\* was; an input that is not opposite becomes the staged direction; the
\* heading changes only at a movement tick, to the staged direction; and the
\* heading after the call is never the opposite of the heading before it.
C3_SnakeReversalRule ==
  [][SnakeLives =>
       LET accepted == SnakeAsked \ {Opposite(snakeDir)}
       IN /\ accepted = {} => snakePendingDir' = snakePendingDir
          /\ accepted # {} => snakePendingDir' \in accepted
          /\ snakeDir' \in {snakeDir, snakePendingDir'}
          /\ snakeBody' # snakeBody => snakeDir' = snakePendingDir'
          /\ snakeDir' # Opposite(snakeDir)]_vars

\* Heading Right with Up staged, and Left (the opposite of the heading)
\* arrives before the next movement tick.
C3_Witness ==
  /\ pc = "mode" /\ currentMode = "SNAKE_GAME" /\ sinceGameIR <= SNAKE_TIMEOUT_MS
  /\ snakeDir = DIR_RIGHT /\ snakePendingDir = DIR_UP /\ snakeTurnLeft

\* Also reached: the snake moves up after a turn.
C3_Turned == currentMode = "SNAKE_GAME" /\ snakeDir = DIR_UP /\ Len(snakeBody) = 4


\* ---------------------------------------------------------- C4 (Snake)
\* The segments the new head must not meet: all of them when the snake grows
\* in the move (the head lands on the food below the length cap), else all
\* but the tail, which vacates its cell.
SnakeBlocking(body, food, head) ==
  IF head = food /\ Len(body) < SNAKE_MAX_LENGTH
  THEN 1 .. Len(body) ELSE 1 .. (Len(body) - 1)

\* C4: Snake death condition. The snake dies at a movement tick exactly when
\* the new head is outside the grid or on a segment that does not vacate its
\* cell in that move: a snake that survived a move has its head inside the
\* grid and on no other of its segments, and every death had its new head
\* outside the grid or on a segment that was not vacating.
C4_SnakeDeathRule ==
  /\ (currentMode = "SNAKE_GAME" /\ death.game = "none") =>
       /\ InSnakeGrid(snakeBody[1])
       /\ \A k \in 2 .. Len(snakeBody) : snakeBody[k] # snakeBody[1]
  /\ death.game = "snake" =>
       \/ ~InSnakeGrid(death.head)
       \/ \E i \in SnakeBlocking(death.body, death.food, death.head) :
            death.body[i] = death.head


\* -------------------------------------------------- games left without input
IdleInput == IRStep({{}, {"GAME1"}, {"GAME2"}, {"GAME3"}}, FALSE, MaxPresses)
NextIdle  == ButtonIdleSlow \/ IdleInput \/ RunDino \/ RunDodge \/ RunSnake \/ RunClock
SpecIdle  == Init /\ [][NextIdle]_vars

\* ------------------------------------------------------ C5 (idle timeout)
GameModes == {"GAME", "DODGE_GAME", "SNAKE_GAME"}

GameTimeout(mode) ==
  IF mode = "GAME" THEN GAME_TIMEOUT_MS
  ELSE IF mode = "DODGE_GAME" THEN DODGE_TIMEOUT_MS
  ELSE SNAKE_TIMEOUT_MS

\* C5: game idle timeout. Whenever the switch on the mode runs in a game mode,
\* the mode becomes Clock in that iteration if more than the game's idle
\* timeout (Dino 15000 ms, Dodge 15000 ms, Snake 20000 ms) has passed since
\* the last input, and only then.
C5_GameIdleTimeout ==
  [][(pc = "mode" /\ currentMode \in GameModes) =>
       (sinceInput > GameTimeout(currentMode) <=> currentMode' = "CLOCK")]_vars


\* ------------------------------------------------------ the settings menus
\* The remote's menu keys, one at a time or Down and Ok in the same sample,
\* and the button, pressed and held or released. Iterations of MenuTicks are
\* short enough for a press to be released within BUTTON_SHORT_PRESS_MS.
MenuPins   == {{}, {"OPTIONS"}, {"UP"}, {"DOWN"}, {"OK"}, {"RETURN"}, {"DOWN", "OK"}}
MenuButton == ButtonStep(MenuTicks, {FALSE, TRUE}, MaxPresses)
MenuInput  == IRStep(MenuPins, FALSE, MaxPresses)
NextMenu   == MenuButton \/ MenuInput \/ RunClock \/ RunSettings \/ RunSetTime
                \/ RunSetDate
SpecMenu   == Init /\ [][NextMenu]_vars

\* An edit mode entered with the remote and then left alone, in iterations
\* of IdleTicks; loop() never stops iterating.
EditPins      == {{}, {"OPTIONS"}, {"DOWN"}, {"DOWN", "OK"}}
EditButton    == ButtonStep(IdleTicks, {FALSE}, 0)
EditInput     == IRStep(EditPins, FALSE, MaxPresses)
NextEditIdle  == EditButton \/ EditInput \/ RunClock \/ RunSettings \/ RunSetTime
                   \/ RunSetDate
SpecEditIdle  == Init /\ [][NextEditIdle]_vars /\ WF_vars(NextEditIdle)

\* ------------------------------------------------- C6 (edit-mode timeout)
EditModes == {"SET_TIME", "SET_DATE"}

\* C6: edit-mode idle timeout. The inputs of a behaviour being finitely many,
\* SetTime and SetDate are always left for Clock in the end: with no further
\* input an idle timeout forces the mode back to Clock.
C6_EditModeTimeout == (currentMode \in EditModes) ~> (currentMode = "CLOCK")

\* For comparison, the Settings menu, which does have the timeout of
\* runSettingsMenu, is never stayed in forever.
C6_SettingsIsLeft == []<>(currentMode # "SETTING")

\* ---------------------------------------------------- C7 (Settings timeout)
\* C7: Settings idle timeout. Whenever the switch on the mode runs in
\* Settings, the mode becomes Clock in that iteration exactly if more than
\* 30000 ms have passed since the last Settings activity (entry, Up, Down or
\* Ok edge, short or long press of the button, return from an edit mode), and
\* then the difficulty is the value written to the persistent store.
C7_SettingsTimeout ==
  [][(pc = "mode" /\ currentMode = "SETTING") =>
       /\ sinceSettingsAct > SETTINGS_TIMEOUT_MS <=> currentMode' = "CLOCK"
       /\ currentMode' = "CLOCK" =>
            /\ eeWrites' = Append(eeWrites, <<"difficulty", difficulty>>)
            /\ eeprom'.difficulty = difficulty
       /\ currentMode' \in {"CLOCK", "SETTING"}]_vars

\* The timeout has fired, after the menu cursor had been moved.
C7_Witness ==
  /\ pc = "button" /\ currentMode = "CLOCK" /\ currentMenu # MENU_DIFFICULTY
  /\ sinceSettingsAct > SETTINGS_TIMEOUT_MS
  /\ eeWrites = << <<"difficulty", difficulty>> >>

\* Also reached: the kinds of activity before a timeout.
C7_ShortPress == currentMode = "SETTING" /\ btnEvent = "short"
C7_LongPress == currentMode = "SETTING" /\ btnEvent = "long" /\ difficulty = 2
C7_HoldEntry == currentMode = "SETTING" /\ btnEvent = "medium"
C7_LastMoment == pc = "mode" /\ currentMode = "SETTING" /\ sinceSettingsAct = SETTINGS_TIMEOUT_MS
C7_SetDate == currentMode = "SET_DATE"


\* ------------------------------------------- Dodge, played with a key held
\* The Game2 key is pressed and stays down: Dodge is launched, the idle
\* timeout never fires and the player stays in column 7. During play the
\* blocks drawn fall beside that column, and the life is followed until
\* DodgeScoreCap blocks were survived.
HeldInput     == IRStep({{"GAME2"}}, TRUE, MaxPresses)
RunDodgeLong  ==
  /\ pc = "mode" /\ currentMode = "DODGE_GAME" /\ dodgeScore < DodgeScoreCap
  /\ \E r \in DrawsFrom("run", {}, State, SideBlocks) : Commit(runDodgeGame(State, r))
  /\ pc' = "button"
NextDodgeHeld == ButtonIdleSlow \/ HeldInput \/ RunDodgeLong
SpecDodgeHeld == Init /\ [][NextDodgeHeld]_vars

\* ------------------------------------------------------ C8 (Dodge floor)
\* C8: Dodge frame interval floor. The frame interval of Dodge is never below
\* the configured minimum of 35 ms.
C8_DodgeIntervalFloor == dodgeSpeed >= DODGE_MIN_SPEED


\* ------------------------------------------------------------- long games
\* A Snake life well under way: n foods eaten, the interval the ramp has
\* reached after them (it acts at the multiples of five only), the body (3 + n segments, at most SNAKE_MAX_LENGTH)
\* along row 5, column 0 and row 0, the food in front of the head, and an
\* input just received.
RECURSIVE SnakeSpeedAt(_)
SnakeSpeedAt(n) ==
  IF n < 5 THEN SNAKE_INITIAL_SPEED
  ELSE LET last == 5 * (n \div 5)
           before == SnakeSpeedAt(last - 5)
       IN SnakeRamp(last, before)

SnakeLatePath ==
  [i \in 1 .. SNAKE_MAX_LENGTH |->
     IF i <= 8 THEN <<8 - i, 5>>
     ELSE IF i <= 13 THEN <<0, 13 - i>>
     ELSE <<i - 13, 0>>]

SnakeLate(n) ==
  [Boot EXCEPT
     !.currentMode = "SNAKE_GAME",
     !.snakeBody = SubSeq(SnakeLatePath, 1, Min(3 + n, SNAKE_MAX_LENGTH)),
     !.foodX = 8, !.foodY = 5,
     !.snakeScore = n, !.snakeSpeed = SnakeSpeedAt(n),
     !.sinceSnakeMove = 0, !.sinceIR = 0, !.sinceGameIR = 0, !.sinceInput = 0]

InitLong == Init \/ \E n \in SnakeLateScores : Starts(SnakeLate(n))

\* Game1 launches Dino, Up makes the player jump (or turns the snake), and
\* the key last pressed stays down, so that the idle timeout never fires. A
\* Dino life is followed until DinoScoreCap obstacles have passed.
LongInput   == IRStep({{"GAME1"}, {"UP"}}, TRUE, MaxPresses)
RunDinoLong == score < DinoScoreCap /\ RunDino
NextLong    == ButtonIdleSlow \/ LongInput \/ RunDinoLong \/ RunSnake \/ RunClock
SpecLong    == InitLong /\ [][NextLong]_vars

\* ----------------------------------------------- C9 (Dino, Snake floors)
\* C9: Dino and Snake interval floors. The Dino frame interval is 100 minus
\* the score (one step per obstacle that left the grid), never below 40; the
\* Snake move interval is 300 minus 15 for every five points, never below 80.
C9_DinoSnakeIntervals ==
  /\ gameSpeed \in MIN_GAME_SPEED .. INITIAL_GAME_SPEED
  /\ gameSpeed = Max(INITIAL_GAME_SPEED - SPEED_DECREASE * score, MIN_GAME_SPEED)
  /\ snakeSpeed \in SNAKE_MIN_SPEED .. SNAKE_INITIAL_SPEED
  /\ snakeSpeed = Max(SNAKE_INITIAL_SPEED - 5 * SNAKE_SPEED_STEP * (snakeScore \div 5),
                      SNAKE_MIN_SPEED)

\* Dino played past the point where the interval reaches its floor.
C9_Witness ==
  currentMode = "GAME" /\ score > INITIAL_GAME_SPEED - MIN_GAME_SPEED
    /\ gameSpeed = MIN_GAME_SPEED

\* Also reached: the Snake step that is clamped (90 - 15 < 80), the first
\* Snake step, and a food eaten at the floor.
C9_SnakeClamped == currentMode = "SNAKE_GAME" /\ snakeScore = 75 /\ snakeSpeed = SNAKE_MIN_SPEED
C9_SnakeFirstStep == currentMode = "SNAKE_GAME" /\ snakeScore = 5 /\ snakeSpeed = 285
C9_SnakeAtFloor == currentMode = "SNAKE_GAME" /\ snakeScore = 80 /\ snakeSpeed = SNAKE_MIN_SPEED


\* ------------------------------------------------- the three games, played
\* Any game launched, played with Up, left with Return and launched again,
\* the key last pressed staying down (no idle timeout fires); Snake also from
\* a life well under way. Dino and Dodge lives are followed up to
\* PlayScoreCap points.
PlayInput    == IRStep({{"GAME1"}, {"GAME2"}, {"GAME3"}, {"UP"}, {"RETURN"}},
                       TRUE, MaxPresses)
RunDinoPlay  == score < PlayScoreCap /\ RunDino
RunDodgePlay == dodgeScore < PlayScoreCap /\ RunDodge
NextPlay     == ButtonIdleSlow \/ PlayInput \/ RunDinoPlay \/ RunDodgePlay
                  \/ RunSnake \/ RunClock
SpecPlay     == InitLong /\ [][NextPlay]_vars

\* ------------------------------------------------------ C10 (monotonicity)
\* A step that resets an engine: its death, or its launch from another mode.
ResetStep(game, mode) ==
  \/ death'.game = game
  \/ currentMode # mode /\ currentMode' = mode

\* C10: score and interval within a life. In each engine every step either
\* leaves the score unchanged or larger and the interval unchanged or smaller,
\* or is a reset (a death or a launch) and sets the score to 0 and the
\* interval to its initial value.
C10_ScoreIntervalMonotone ==
  [][/\ \/ score' >= score /\ gameSpeed' <= gameSpeed
        \/ ResetStep("dino", "GAME") /\ score' = 0 /\ gameSpeed' = INITIAL_GAME_SPEED
     /\ \/ dodgeScore' >= dodgeScore /\ dodgeSpeed' <= dodgeSpeed
        \/ ResetStep("dodge", "DODGE_GAME") /\ dodgeScore' = 0
             /\ dodgeSpeed' = DODGE_INITIAL_SPEED
     /\ \/ snakeScore' >= snakeScore /\ snakeSpeed' <= snakeSpeed
        \/ ResetStep("snake", "SNAKE_GAME") /\ snakeScore' = 0
             /\ snakeSpeed' = SNAKE_INITIAL_SPEED]_vars

\* A Dodge life that scored has just ended: the death stored the new high
\* score and reset the score and the interval.
C10_Witness ==
  /\ death.game = "dodge" /\ eeprom.dodge > 0
  /\ eeWrites = <<<<"dodge", eeprom.dodge>>>>
  /\ dodgeScore = 0 /\ dodgeSpeed = DODGE_INITIAL_SPEED

\* Also reached: a speed-up in each engine, a relaunch right after points, and
\* deaths after points.
C10_DinoFaster == currentMode = "GAME" /\ score = 1 /\ gameSpeed = 99
C10_DodgeFaster == currentMode = "DODGE_GAME" /\ dodgeScore = 2 /\ dodgeSpeed = 156
C10_SnakeFaster == currentMode = "SNAKE_GAME" /\ snakeScore = 70 /\ snakeSpeed = 90
C10_Relaunch == pc = "ir" /\ currentMode = "CLOCK" /\ presses = 2 /\ dodgeScore = 2
C10_SnakeDeath == death.game = "snake" /\ eeprom.snake = 75 /\ snakeSpeed = 300
C10_DinoDeath == death.game = "dino" /\ eeWrites # <<>> /\ score = 0

\* ------------------------------------------------ C11 (Dodge block count)
\* Dodge with the Game2 key held, lives followed until DodgeMidCap points.
\* During play the blocks drawn are the side blocks and one block that falls
\* on the start column, so that lives end at every score.
MidBlocks    == SideBlocks \cup {<<2, 6>>}
RunDodgeMid  ==
  /\ pc = "mode" /\ currentMode = "DODGE_GAME" /\ dodgeScore < DodgeMidCap
  /\ \E r \in DrawsFrom("run", {}, State, MidBlocks) : Commit(runDodgeGame(State, r))
  /\ pc' = "button"
NextDodgeMid == ButtonIdleSlow \/ HeldInput \/ RunDodgeMid
SpecDodgeMid == Init /\ [][NextDodgeMid]_vars

\* The iteration about to run is a block-advance step of the Dodge engine.
DodgeFrameDue ==
  /\ pc = "mode" /\ currentMode = "DODGE_GAME"
  /\ sinceGameIR <= DODGE_TIMEOUT_MS
  /\ sinceDodgeFrame > dodgeSpeed

\* C11: Dodge target block count. Right after every block-advance step the
\* number of active blocks is 1 when the score is below 5, 2 when the score is
\* 15 or more, and 1 or 2 for a score in 5..14, where the draw decides; the
\* empty slots are refilled up to the target within the step.
C11_DodgeTargetBlocks ==
  [][DodgeFrameDue =>
       LET n == DodgeActiveCount(dodgeBlocks')
       IN /\ dodgeScore' < 5 => n = 1
          /\ dodgeScore' >= 15 => n = 2
          /\ n \in {1, 2}]_vars

\* A block-advance step has just ended at score 14 with a single block: the
\* second block is not forced there.
C11_Witness ==
  /\ pc = "button" /\ currentMode = "DODGE_GAME" /\ sinceDodgeFrame = 0
  /\ dodgeScore = 14 /\ DodgeActiveCount(dodgeBlocks) = 1

\* Also reached: two blocks at score 14, two blocks at score 5, one block at
\* score 5, and the second block forced in the step that reaches score 15.
C11_TwoAtFourteen ==
  /\ pc = "button" /\ currentMode = "DODGE_GAME" /\ sinceDodgeFrame = 0
  /\ dodgeScore = 14 /\ DodgeActiveCount(dodgeBlocks) = 2
C11_TwoAtFive ==
  /\ pc = "button" /\ currentMode = "DODGE_GAME" /\ sinceDodgeFrame = 0
  /\ dodgeScore = 5 /\ DodgeActiveCount(dodgeBlocks) = 2
C11_OneAtFive ==
  /\ pc = "button" /\ currentMode = "DODGE_GAME" /\ sinceDodgeFrame = 0
  /\ dodgeScore = 5 /\ DodgeActiveCount(dodgeBlocks) = 1
C11_BothNew ==
  /\ pc = "button" /\ currentMode = "DODGE_GAME" /\ sinceDodgeFrame = 0
  /\ dodgeScore = 15 /\ dodgeBlocks[0].y = 0 /\ dodgeBlocks[1].y = 0
  /\ dodgeBlocks[0].active /\ dodgeBlocks[1].active

C11_ResetToOne ==
  /\ death.game = "dodge" /\ DodgeActiveCount(death.blocks) = 2
  /\ dodgeScore = 0 /\ DodgeActiveCount(dodgeBlocks) = 1

\* --------------------------------------------- games left alone or quit
\* setup(): a stored high score is kept when it is in range, else replaced by
\* 0 in memory; the store is not rewritten.
loadHighScore(v)      == IF v < 0 \/ v > 9999 THEN 0 ELSE v
loadDodgeHighScore(v) == IF v < 0 \/ v > 9999 THEN 0 ELSE v
loadSnakeHighScore(v) == IF v < 0 \/ v > 99999 THEN 0 ELSE v

\* setup(): the program boots with v in each high-score cell of the store, a
\* score stored by an earlier session.
StoredScores == {1}
PowerOn == pc = "boot" /\ Holds(Boot)
setup(s, v) ==
  [s EXCEPT !.eeprom = [@ EXCEPT !.dino = v, !.dodge = v, !.snake = v],
            !.highScore = loadHighScore(v),
            !.dodgeHighScore = loadDodgeHighScore(v),
            !.snakeHighScore = loadSnakeHighScore(v)]
Setup ==
  /\ pc = "boot"
  /\ \E v \in StoredScores : Commit(setup(State, v))
  /\ pc' = "button"

\* A game is launched from the remote and then left alone, or quit with
\* Return; lives end, with and without points, and idle timeouts fire.
ScoresInput == IRStep({{}, {"GAME1"}, {"GAME2"}, {"GAME3"}, {"RETURN"}, {"UP"}}, FALSE, MaxPresses)
NextScores  ==
  Setup \/ ButtonIdleSlow \/ ScoresInput \/ RunDino \/ RunDodge \/ RunSnake \/ RunClock
SpecScores  == PowerOn /\ [][NextScores]_vars

\* ------------------------------------------------- C12 (high-score writes)
ScoreKeys == {"dino", "dodge", "snake"}
HighScoreOf(k) ==
  IF k = "dino" THEN highScore ELSE IF k = "dodge" THEN dodgeHighScore ELSE snakeHighScore

HighScoreNext(k) ==
  IF k = "dino" THEN highScore' ELSE IF k = "dodge" THEN dodgeHighScore' ELSE snakeHighScore'

\* The writes of the step to the high-score cells: the log starts afresh at
\* the top of loop().
NewScoreWrites ==
  LET IsScore(w) == w[1] \in ScoreKeys
      new == IF pc = "button" THEN eeWrites'
             ELSE SubSeq(eeWrites', Len(eeWrites) + 1, Len(eeWrites'))
  IN SelectSeq(new, IsScore)

\* C12: high-score persistence is write-if-improved. A step in which a life
\* ends with a score above the game's high score writes that score, once, and
\* makes it the high score; a life ending with any other score, and every
\* other step (a tick, a quit, a timeout), writes no high score and leaves
\* the high scores and their cells as they are (the load in setup() apart).
\* Each persist operation called a second time changes nothing and writes
\* nothing.
C12_WriteIfImproved ==
  /\ [](/\ saveHighScore(saveHighScore(State)) = saveHighScore(State)
        /\ saveDodgeHighScore(saveDodgeHighScore(State)) = saveDodgeHighScore(State)
        /\ saveSnakeHighScore(saveSnakeHighScore(State)) = saveSnakeHighScore(State))
  /\ [][pc # "boot" =>
        LET died == pc = "mode" /\ death'.game \in ScoreKeys
            Kept(k) == HighScoreNext(k) = HighScoreOf(k) /\ eeprom'[k] = eeprom[k]
        IN IF died /\ death'.score > HighScoreOf(death'.game)
           THEN /\ NewScoreWrites = << <<death'.game, death'.score>> >>
                /\ HighScoreNext(death'.game) = death'.score
                /\ eeprom'[death'.game] = death'.score
                /\ \A k \in ScoreKeys \ {death'.game} : Kept(k)
           ELSE NewScoreWrites = <<>> /\ \A k \in ScoreKeys : Kept(k)]_vars

\* A Dodge life has just ended with points that do not beat the high score:
\* nothing was written.
C12_Witness ==
  /\ death.game = "dodge" /\ death.score > 0 /\ death.score <= dodgeHighScore
  /\ eeWrites = <<>>

\* Also reached: a new high score written in each game; a tie; a quit and a
\* timeout with a score on the board that beats the high score.
C12_DinoWritten  == death.game = "dino" /\ eeWrites = << <<"dino", death.score>> >>
C12_DodgeWritten == death.game = "dodge" /\ eeWrites = << <<"dodge", 2>> >> /\ dodgeHighScore = 2
C12_SnakeWritten == death.game = "snake" /\ eeWrites = << <<"snake", death.score>> >>
C12_Tie     == death.game = "snake" /\ death.score = 1 /\ snakeHighScore = 1 /\ eeWrites = <<>>
C12_Quit    == pc = "mode" /\ currentMode = "CLOCK" /\ lastPins = {"RETURN"} /\ dodgeScore > dodgeHighScore
C12_Timeout == pc = "button" /\ currentMode = "CLOCK" /\ sinceGameIR > DODGE_TIMEOUT_MS
                 /\ dodgeScore > dodgeHighScore /\ eeWrites = <<>>

\* ------------------------------------------------------ editing the time
\* The remote opens Settings from the clock set at boot, moves to the Time
\* entry and selects it, then steps the fields with Up and Down and confirms
\* with Ok, alone or in the same sample as Up.
TimeEditKeys ==
  IF currentMode = "CLOCK" THEN (IF rtc = RtcBoot THEN {{}, {"OPTIONS"}} ELSE {{}})
  ELSE IF currentMode = "SETTING"
       THEN (IF currentMenu = MENU_TIME THEN {{"OK"}} ELSE {{"DOWN"}})
  ELSE {{"UP"}, {"DOWN"}, {"OK"}, {"UP", "OK"}}
TimeEditInput == IRStep(TimeEditKeys, FALSE, EditPresses)
NextTimeEdit  == EditButton \/ TimeEditInput \/ RunClock \/ RunSettings \/ RunSetTime
SpecTimeEdit  == Init /\ [][NextTimeEdit]_vars

\* ---------------------------------------------- C13 (time-edit round trip)
\* The step wrote the real-time clock.
RtcWritten == IF pc = "button" THEN rtcWrites' > 0 ELSE rtcWrites' > rtcWrites

\* C13: time-edit round trip. The staged hour stays in 0..23 and the staged
\* minute in 0..59; a step that confirms a time edit does so on the second
\* field, and leaves the real-time clock reading the staged hour and minute,
\* with the year, month and day it had before.
C13_TimeRoundTrip ==
  /\ [](tempHour \in 0..23 /\ tempMinute \in 0..59)
  /\ [][(currentMode = "SET_TIME" /\ RtcWritten) =>
          /\ settingStep = 1
          /\ rtc'.hour = tempHour' /\ rtc'.minute = tempMinute'
          /\ rtc'.year = rtc.year /\ rtc'.month = rtc.month /\ rtc'.day = rtc.day
          /\ rtcWrites' = rtcWrites + 1]_vars

\* 23:59 was staged from 12:34 and confirmed.
C13_Witness ==
  /\ pc = "mode" /\ currentMode = "CLOCK" /\ rtcWrites = 1
  /\ tempHour = 23 /\ tempMinute = 59 /\ rtc.hour = 23 /\ rtc.minute = 59
  /\ rtc.year = RtcBoot.year /\ rtc.month = RtcBoot.month /\ rtc.day = RtcBoot.day

\* Also reached: midnight, after both fields wrapped; the time confirmed
\* unchanged; Up and Ok in the confirming sample.
C13_Midnight  == rtcWrites = 1 /\ rtc.hour = 0 /\ rtc.minute = 0
C13_Unchanged == rtcWrites = 1 /\ rtc.hour = RtcBoot.hour /\ rtc.minute = RtcBoot.minute
C13_UpAndOk   == rtcWrites = 1 /\ lastPins = {"UP", "OK"} /\ rtc.minute = 35

\* --------------------------------------------------- the button on its own
\* The button is sampled every ButtonTicks milliseconds, so that a press can
\* last exactly as long as each threshold; the remote is left alone.
ButtonPress == ButtonStep(ButtonTicks, {FALSE, TRUE}, DeepPresses)
NoRemote    == IRStep({{}}, FALSE, 0)
NextButton  == ButtonPress \/ NoRemote \/ RunClock \/ RunSettings \/ RunSetTime
                 \/ RunSetDate
SpecButton  == Init /\ [][NextButton]_vars

\* ------------------------------------------------ C14 (one event per press)
\* C14: one event per button gesture. Once a press has produced an event (the
\* medium hold, while held), it produces no other: the sample that ends it
\* fires nothing.
C14_OneEventPerPress ==
  [][(pc = "button" /\ btnActive /\ btnMediumFired) => btnEvent' = "none"]_vars

\* --------------------------------------------------- C15 (button thresholds)
\* C15: button thresholds. A sample of the button fires the medium hold iff the
\* button is held, has been for at least 3000 ms, and the press has not fired
\* it before, which it can only have done at 3000 ms or later; a sample that
\* ends a press fires the short press iff the medium hold never fired and the
\* press lasted under 1000 ms, the long hold iff the medium hold had fired,
\* the press lasted at least 5000 ms and the mode is Settings, SetTime or
\* SetDate, and nothing otherwise; no other sample fires anything.
C15_ButtonThresholds ==
  /\ []((btnActive /\ btnMediumFired) => sinceBtn >= BUTTON_MEDIUM_PRESS_MS)
  /\ [][pc = "button" =>
          LET held     == btnActive'
              released == btnActive /\ ~btnActive'
              dur      == sinceBtn'
              fired    == btnActive /\ btnMediumFired
          IN /\ btnEvent' = "medium" <=>
                  held /\ dur >= BUTTON_MEDIUM_PRESS_MS /\ ~fired
             /\ btnEvent' = "short" <=>
                  released /\ ~btnMediumFired /\ dur < BUTTON_SHORT_PRESS_MS
             /\ btnEvent' = "long" <=>
                  /\ released /\ btnMediumFired /\ dur >= BUTTON_LONG_PRESS_MS
                  /\ currentMode \in {"SETTING", "SET_TIME", "SET_DATE"}
             /\ btnEvent' \in {"none", "short", "medium", "long"}]_vars

\* A press that fired the medium hold is released in Settings after 4500 ms:
\* nothing fires.
C15_Witness ==
  /\ pc = "ir" /\ ~btnActive /\ btnMediumFired /\ sinceBtn = 4500
  /\ currentMode = "SETTING" /\ btnEvent = "none"

\* Also reached: each event at its threshold, and the releases that fire
\* nothing.
C15_MediumAtThreshold == btnEvent = "medium" /\ sinceBtn = BUTTON_MEDIUM_PRESS_MS
C15_MediumElsewhere   == btnEvent = "medium" /\ currentMode = "SET_TIME"
C15_ShortJustUnder    == btnEvent = "short" /\ sinceBtn = 500
C15_NoShortAtThreshold ==
  pc = "ir" /\ ~btnActive /\ ~btnMediumFired /\ sinceBtn = BUTTON_SHORT_PRESS_MS
    /\ btnEvent = "none" /\ presses > 0
C15_LongAtThreshold   == btnEvent = "long" /\ sinceBtn = BUTTON_LONG_PRESS_MS
C15_ReleasedAtMedium  ==
  pc = "ir" /\ ~btnActive /\ ~btnMediumFired /\ sinceBtn = BUTTON_MEDIUM_PRESS_MS
    /\ btnEvent = "none" /\ presses > 0
C15_LongInSetTime     == btnEvent = "long" /\ currentMode = "SET_TIME" /\ settingStep = 1

\* ------------------------------------------------- games quit and relaunched
\* The remote launches Dino from the clock, jumps, quits with Return and
\* launches again.
RelaunchInput == IRStep({{}, {"GAME1"}, {"UP"}, {"RETURN"}}, FALSE, DeepPresses)
NextRelaunch  == ButtonIdleSlow \/ RelaunchInput \/ RunDinoPlay \/ RunClock
SpecRelaunch  == Init /\ [][NextRelaunch]_vars

\* ------------------------------------------------------- C16 (game launch)
\* The line k is asserted in the sample of the step and was not in the last.
EdgeOf(k) == k \in lastPins' \ lastPins

DinoLaunched ==
  /\ currentMode' = "GAME" /\ score' = 0 /\ gameSpeed' = INITIAL_GAME_SPEED
  /\ obstacleX' = OBSTACLE_START_X /\ obstacleType' = GROUND_OBSTACLE
  /\ playerY' = PLAYER_GROUND_Y /\ ~isJumping' /\ ~irJumpTriggered'
  /\ sinceGameIR' <= LAUNCH_FLASH_MS

DodgeLaunched ==
  /\ currentMode' = "DODGE_GAME" /\ dodgeScore' = 0
  /\ dodgeSpeed' = DODGE_INITIAL_SPEED /\ dodgePlayerX' = DODGE_PLAYER_START_X
  /\ dodgeBlocks'[0].active /\ dodgeBlocks'[0].y = 0 /\ ~dodgeBlocks'[1].active
  /\ ~dodgeMoveLeft' /\ ~dodgeMoveRight'
  /\ sinceGameIR' <= LAUNCH_FLASH_MS

SnakeLaunched ==
  /\ currentMode' = "SNAKE_GAME" /\ snakeScore' = 0
  /\ snakeSpeed' = SNAKE_INITIAL_SPEED
  /\ snakeBody' = << <<7, 5>>, <<6, 5>>, <<5, 5>> >>
  /\ snakeDir' = DIR_RIGHT /\ snakePendingDir' = DIR_RIGHT
  /\ ~snakeTurnUp' /\ ~snakeTurnDown' /\ ~snakeTurnLeft' /\ ~snakeTurnRight'
  /\ sinceGameIR' <= LAUNCH_FLASH_MS

\* C16: game launch from Clock. In Clock, a Game1, Game2 or Game3 edge sets
\* the mode to Dino, Dodge or Snake, puts that engine's whole state at its
\* initial values (score 0, initial interval and positions, the obstacle, the
\* blocks, the body, no pending input) and leaves the game activity timestamp
\* no older than the launch.
C16_LaunchResets ==
  [][(pc = "ir" /\ currentMode = "CLOCK") =>
       /\ EdgeOf("GAME1") => DinoLaunched
       /\ EdgeOf("GAME2") => DodgeLaunched
       /\ EdgeOf("GAME3") => SnakeLaunched]_vars

\* The same for Dodge and Snake alone, which holds when games are launched,
\* quit and launched again.
C16_DodgeSnakeLaunch ==
  [][(pc = "ir" /\ currentMode = "CLOCK") =>
       /\ EdgeOf("GAME2") => DodgeLaunched
       /\ EdgeOf("GAME3") => SnakeLaunched]_vars

\* Reached: Dodge and Snake launched again after a life was played.
C16_DodgeAgain == pc = "mode" /\ currentMode = "DODGE_GAME" /\ presses = 3
                    /\ lastPins = {"GAME2"} /\ dodgeHighScore > 1
C16_SnakeAgain == pc = "mode" /\ currentMode = "SNAKE_GAME" /\ presses = 3
                    /\ lastPins = {"GAME3"} /\ snakeHighScore > 1

\* ------------------------------------------------- C17 (death keeps the mode)
\* C17: death keeps the mode. A step in which a life ends leaves the mode as
\* it is, unless the game's idle timeout fires in the same iteration; and a
\* step that takes the mode out of a game takes it to Clock, and is either
\* the sampling of the remote with a Return edge or the switch on the mode
\* with the game's idle timer past the game's idle timeout.
C17_DeathKeepsMode ==
  [][LET died   == death'.game # "none" /\ sinceGameIR <= GameTimeout(currentMode)
         quit   == pc = "ir" /\ EdgeOf("RETURN")
         idle   == pc = "mode" /\ sinceGameIR > GameTimeout(currentMode)
         leaves == currentMode' # currentMode
     IN currentMode \in GameModes =>
          /\ died => ~leaves
          /\ leaves => (currentMode' = "CLOCK" /\ (quit \/ idle))]_vars

\* A Snake life has ended and the mode is still Snake.
C17_Witness ==
  /\ pc = "button" /\ death.game = "snake" /\ currentMode = "SNAKE_GAME"
  /\ snakeScore = 0 /\ snakeBody = << <<7, 5>>, <<6, 5>>, <<5, 5>> >>

\* Also reached: deaths in Dino and Dodge with the mode kept; each game left
\* by Return or by its timeout.
C17_DinoDeath    == pc = "button" /\ death.game = "dino" /\ currentMode = "GAME"
C17_DodgeDeath   == pc = "button" /\ death.game = "dodge" /\ currentMode = "DODGE_GAME"
C17_SnakeQuit    == pc = "mode" /\ currentMode = "CLOCK" /\ lastPins = {"RETURN"}
                      /\ snakeBody # <<>> /\ presses = 2
C17_DinoTimeout  == pc = "button" /\ currentMode = "CLOCK" /\ presses = 1
                      /\ lastPins = {} /\ sinceGameIR > GAME_TIMEOUT_MS /\ snakeBody = <<>>
                      /\ ~dodgeBlocks[0].active
C17_DodgeTimeout == pc = "button" /\ currentMode = "CLOCK" /\ presses = 1
                      /\ lastPins = {} /\ sinceGameIR > DODGE_TIMEOUT_MS
                      /\ dodgeBlocks[0].active

\* ------------------------------------------ C18 (leaving a game, no effect)
\* The step wrote nothing to the persistent store.
NothingStored ==
  /\ eeprom' = eeprom
  /\ eeWrites' = IF pc = "button" THEN <<>> ELSE eeWrites

DinoEngine  == <<score, gameSpeed, playerY, isJumping, obstacleX, obstacleType>>
DodgeEngine == <<dodgeScore, dodgeSpeed, dodgePlayerX, dodgeBlocks>>
SnakeEngine == <<snakeScore, snakeSpeed, snakeBody, snakeDir, foodX, foodY>>

\* C18: leaving a game has no side effect. A step that moves the mode from a
\* game to Clock (a Return edge or the idle timeout) leaves the engine's
\* state (score, positions, interval) as it was, ends no life and writes
\* nothing to the persistent store.
C18_LeavingHasNoEffect ==
  [][(currentMode \in GameModes /\ currentMode' = "CLOCK") =>
       /\ UNCHANGED <<DinoEngine, DodgeEngine, SnakeEngine>>
       /\ death' = death
       /\ NothingStored]_vars

\* The same for Dodge and Snake alone, which holds.
C18_DodgeSnakeLeave ==
  [][(currentMode \in {"DODGE_GAME", "SNAKE_GAME"} /\ currentMode' = "CLOCK") =>
       /\ UNCHANGED <<DinoEngine, DodgeEngine, SnakeEngine>>
       /\ death' = death
       /\ NothingStored]_vars

\* ------------------------------------------------------- opening Settings
\* The button, pressed, held and released, and the remote: Options, alone or
\* in the same sample as Game1, Game1, and Down with Ok to enter the time
\* edit from Settings.
OpenPins   == {{}, {"OPTIONS"}, {"GAME1"}, {"OPTIONS", "GAME1"}, {"DOWN", "OK"}}
OpenButton == ButtonStep(SlowTicks, {FALSE, TRUE}, MaxPresses)
OpenInput  == IRStep(OpenPins, FALSE, MaxPresses)
NextOpen   == OpenButton \/ OpenInput \/ RunClock \/ RunSettings \/ RunSetTime
                \/ RunDino
SpecOpen   == Init /\ [][NextOpen]_vars

\* ------------------------------------------------- C19 (opening Settings)
SettingsOpened ==
  currentMode' = "SETTING" /\ currentMenu' = MENU_DIFFICULTY /\ sinceActivity' = 0

\* What a step that only lets time pass leaves as it is.
NothingChanged ==
  /\ UNCHANGED <<currentMode, currentMenu, gameSelectChoice, settingStep,
                 tempHour, tempMinute, tempYear, tempMonth, tempDay, difficulty,
                 rtc, eeprom, highScore, dodgeHighScore, snakeHighScore,
                 DinoEngine, DodgeEngine, SnakeEngine, irJumpTriggered>>
  /\ sinceActivity' > 0 /\ rtcWrites' = 0 /\ eeWrites' = <<>>

\* C19: opening Settings. In Clock, an Options edge (with no Game key edge in
\* the same sample) and a medium hold of the button each set the mode to
\* Settings with the cursor on Difficulty and the Settings idle timer
\* restarted; a medium hold in any other mode changes nothing.
C19_OpeningSettings ==
  [][/\ (pc = "ir" /\ currentMode = "CLOCK" /\ EdgeOf("OPTIONS")
           /\ ~EdgeOf("GAME1") /\ ~EdgeOf("GAME2") /\ ~EdgeOf("GAME3"))
          => SettingsOpened
     /\ (pc = "button" /\ btnEvent' = "medium") =>
          IF currentMode = "CLOCK" THEN SettingsOpened ELSE NothingChanged]_vars

\* Settings has just been opened by a medium hold of the button, 3000 ms
\* into the press.
C19_Witness ==
  /\ pc = "ir" /\ btnEvent = "medium" /\ currentMode = "SETTING"
  /\ currentMenu = MENU_DIFFICULTY /\ sinceActivity = 0
  /\ btnActive /\ sinceBtn = BUTTON_MEDIUM_PRESS_MS /\ presses = 1

\* Also reached: Settings opened by Options; a medium hold in Settings, in
\* the time edit and in Dino; Options and Game1 in the same sample.
C19_ByOptions     == pc = "mode" /\ lastPins = {"OPTIONS"} /\ currentMode = "SETTING"
                       /\ currentMenu = MENU_DIFFICULTY /\ sinceActivity = 0 /\ presses = 1
C19_HoldInMenu    == btnEvent = "medium" /\ currentMode = "SETTING" /\ presses = 2
C19_HoldInSetTime == btnEvent = "medium" /\ currentMode = "SET_TIME"
C19_HoldInDino    == btnEvent = "medium" /\ currentMode = "GAME"
C19_GameOutranks  == pc = "mode" /\ lastPins = {"OPTIONS", "GAME1"} /\ currentMode = "GAME"
                       /\ presses = 1

\* ------------------------------------------------------ confirming an edit
\* The remote opens Settings from the clock set at boot, moves to the Time
\* entry and selects it, or the Date entry with Down and Ok in one sample; in
\* the edit it steps a field, confirms, cancels, or does two in one sample.
\* The button is pressed, held and released throughout, sampled every
\* IdleTicks milliseconds.
ConfirmKeys ==
  IF currentMode = "CLOCK" THEN (IF rtc = RtcBoot THEN {{"OPTIONS"}} ELSE {{}})
  ELSE IF currentMode = "SETTING"
       THEN (IF currentMenu = MENU_TIME THEN {{}, {"OK"}, {"DOWN", "OK"}} ELSE {{"DOWN"}})
  ELSE {{}, {"UP"}, {"OK"}, {"UP", "OK"}, {"RETURN"}, {"RETURN", "OK"}, {"RETURN", "UP"}}
ConfirmButton == ButtonStep(IdleTicks, {FALSE, TRUE}, ConfirmPresses)
ConfirmInput  == IRStep(ConfirmKeys, FALSE, ConfirmPresses)
NextConfirm   == ConfirmButton \/ ConfirmInput \/ RunClock \/ RunSettings
                   \/ RunSetTime \/ RunSetDate
SpecConfirm   == Init /\ [][NextConfirm]_vars

\* ------------------------------------------- C20 (edit confirm protocol)
\* The index of the last field of the edit mode.
LastField(mode) == IF mode = "SET_TIME" THEN 1 ELSE 2

\* The real-time clock reads the staged fields of the edit mode.
StagedWritten(mode) ==
  IF mode = "SET_TIME"
  THEN /\ rtc'.hour = tempHour' /\ rtc'.minute = tempMinute'
       /\ rtc'.year = rtc.year /\ rtc'.month = rtc.month /\ rtc'.day = rtc.day
  ELSE /\ rtc'.year = tempYear' /\ rtc'.month = tempMonth' /\ rtc'.day = tempDay'
       /\ rtc'.hour = rtc.hour /\ rtc'.minute = rtc.minute

C20_TimeByHold  == pc = "ir" /\ btnEvent = "long" /\ currentMode = "CLOCK" /\ rtcWrites = 1
                     /\ settingStep = 1 /\ rtc.second = 0
C20_TimeByOk    == pc = "mode" /\ currentMode = "CLOCK" /\ rtcWrites = 1 /\ settingStep = 1
                     /\ rtc.minute = RtcBoot.minute + 1
C20_EarlyByOk   == pc = "mode" /\ currentMode = "SET_DATE" /\ settingStep = 1
                     /\ lastPins = {"OK"} /\ rtcWrites = 0
C20_EarlyByHold == pc = "ir" /\ btnEvent = "long" /\ currentMode = "SET_TIME"
                     /\ settingStep = 1 /\ rtcWrites = 0
C20_YearStepped == rtcWrites = 1 /\ rtc.year = RtcBoot.year + 1
C20_Cancelled   == pc = "mode" /\ currentMode = "SETTING" /\ lastPins = {"RETURN", "OK"}
                     /\ settingStep = 1 /\ rtcWrites = 0 /\ tempHour # rtc.hour

\* ---------------------------------------------------------- C21 (edit cancel)
\* C21: edit cancel. A sample of the remote with a Return edge in SetTime or
\* SetDate sets the mode to Settings and leaves the real-time clock as it
\* was, unwritten, whatever was staged before, and whichever of Up, Down and
\* Ok have an edge in the same sample: no field is stepped and the field
\* index stays.
C21_EditCancel ==
  [][(pc = "ir" /\ currentMode \in EditModes /\ EdgeOf("RETURN")) =>
       /\ currentMode' = "SETTING"
       /\ rtc' = rtc /\ rtcWrites' = rtcWrites
       /\ UNCHANGED <<tempHour, tempMinute, tempYear, tempMonth, tempDay,
                      settingStep>>]_vars

\* The time edit, a changed hour staged and the minute field reached, has
\* just been cancelled by Return in one sample with Ok.
C21_Witness ==
  /\ pc = "mode" /\ currentMode = "SETTING" /\ lastPins = {"RETURN", "OK"}
  /\ settingStep = 1 /\ tempHour = RtcBoot.hour + 1 /\ rtc = RtcBoot /\ rtcWrites = 0
  /\ tempDay # rtc.day

\* Also reached: the date edit cancelled on the day by Return with Up, a
\* changed year staged; Return alone.
C21_DateWithUp  == pc = "mode" /\ currentMode = "SETTING" /\ lastPins = {"RETURN", "UP"}
                     /\ settingStep = 2 /\ tempYear = RtcBoot.year + 1 /\ rtc = RtcBoot
C21_ReturnAlone == pc = "mode" /\ currentMode = "SETTING" /\ lastPins = {"RETURN"}
                     /\ settingStep = 1 /\ tempMinute # rtc.minute /\ rtc = RtcBoot

\* ------------------------------------------------------ the difficulty level
\* setup(): the byte b is in the difficulty cell of the store when the program
\* boots; it is read into an int8_t, and a level outside 1..5 is replaced by 1
\* and written back.
StoredDifficulty == {255}
loadDifficulty(s, b) ==
  LET d == IF b > 127 THEN b - 256 ELSE b
      s1 == [s EXCEPT !.eeprom = [@ EXCEPT !.difficulty = b], !.difficulty = d]
  IN IF d < 1 \/ d > 5
     THEN EepromPut([s1 EXCEPT !.difficulty = 1], "difficulty", 1)
     ELSE s1
SetupDifficulty ==
  /\ pc = "boot"
  /\ \E b \in StoredDifficulty : Commit(loadDifficulty(State, b))
  /\ pc' = "button"

\* The program boots with a blank store; the remote opens Settings and moves
\* the cursor, selects the entry under it and leaves with Return; the button
\* is pressed, held and released, sampled every IdleTicks milliseconds.
DifficultyKeys ==
  IF currentMode = "CLOCK" THEN {{}, {"OPTIONS"}}
  ELSE {{}, {"OK"}, {"UP"}, {"DOWN"}, {"RETURN"}}
NextDifficulty ==
  \/ SetupDifficulty
  \/ ButtonStep(IdleTicks, {FALSE, TRUE}, DifficultyPresses)
  \/ IRStep(DifficultyKeys, FALSE, DifficultyPresses)
  \/ RunClock \/ RunSettings \/ RunSetTime \/ RunSetDate
SpecDifficulty == PowerOn /\ [][NextDifficulty]_vars

\* --------------------------------------------------- C22 (difficulty cycle)
\* The Difficulty entry is selected: an Ok edge of the remote, or a long press
\* of the button, in Settings with the cursor on Difficulty.
DifficultySelected ==
  /\ currentMode = "SETTING" /\ currentMenu = MENU_DIFFICULTY
  /\ \/ pc = "ir" /\ EdgeOf("OK") /\ lastPins' = {"OK"}
     \/ pc = "button" /\ btnEvent' = "long"

\* C22: difficulty cycle. setup() turns every stored byte into a level of
\* 1..5 that is also the stored one; from then on the level is in 1..5 and
\* equal to the stored level in every state, so at the end of every iteration
\* and on every exit from Settings; selecting the Difficulty entry maps the
\* level d to (d mod 5) + 1 and writes it in the same step, nothing else
\* changes the level, and five selections restore any level of 1..5.
C22_DifficultyCycle ==
  [][LET select(d) == selectMenuItem([State EXCEPT !.currentMenu = MENU_DIFFICULTY,
                                                   !.difficulty = d]).difficulty
         booted    == \A b \in 0..255 :
                        LET t == loadDifficulty(State, b)
                        IN t.difficulty \in 1..5 /\ t.eeprom.difficulty = t.difficulty
         selected  == /\ difficulty' = (difficulty % 5) + 1
                      /\ eeWrites' # <<>>
                      /\ eeWrites'[Len(eeWrites')] = <<"difficulty", difficulty'>>
     IN /\ pc = "boot" => booted
        /\ difficulty' \in 1..5 /\ eeprom'.difficulty = difficulty'
        /\ \A d \in 1..5 : select(select(select(select(select(d))))) = d
        /\ pc # "boot" =>
             /\ DifficultySelected => selected
             /\ difficulty' # difficulty => DifficultySelected]_vars

\* Five selections after the boot with a blank store: the fifth, the only
\* way to a write of level 1 in Settings with six controls used, wraps 5 to 1.
C22_Witness ==
  /\ currentMode = "SETTING" /\ currentMenu = MENU_DIFFICULTY
  /\ eeWrites = << <<"difficulty", 1>> >> /\ difficulty = 1 /\ presses = 6
C22_BootClamp ==
  pc = "button" /\ presses = 0 /\ eeWrites = << <<"difficulty", 1>> >>
C22_ByButton == btnEvent = "long" /\ eeWrites = << <<"difficulty", 3>> >>
C22_ExitByReturn ==
  /\ pc = "mode" /\ currentMode = "CLOCK" /\ lastPins = {"RETURN"}
  /\ eeWrites = << <<"difficulty", 4>> >>
C22_ExitByItem ==
  /\ currentMode = "CLOCK" /\ currentMenu = MENU_EXIT /\ lastPins = {"OK"}
  /\ eeWrites = << <<"difficulty", 2>> >>
C22_ExitByTimeout ==
  /\ pc = "button" /\ currentMode = "CLOCK" /\ lastPins = {} /\ btnEvent = "none"
  /\ eeWrites = << <<"difficulty", 5>> >>

\* ------------------------------------------------------ stepping the fields
\* The remote opens Settings from the clock set at boot, selects the Time or
\* the Date entry, steps the fields with Up and Down, one key a sample, and
\* moves on and confirms with Ok: up to FieldPresses keys, enough for the
\* year to pass 2099. The remote idles for one sample between two Down
\* keys. A field is stepped once around at most: not when the step would
\* bring back the value the clock gave.
FieldAround ==
  LET t == incrementTimeField(State)
      d == incrementDateField(State)
  IN IF currentMode = "SET_TIME"
     THEN (IF settingStep = 0 THEN t.tempHour = rtc.hour ELSE t.tempMinute = rtc.minute)
     ELSE IF settingStep = 0 THEN d.tempYear = rtc.year
     ELSE IF settingStep = 1 THEN d.tempMonth = rtc.month
     ELSE d.tempDay = rtc.day
FieldKeys ==
  IF currentMode = "CLOCK" THEN (IF rtc = RtcBoot THEN {{}, {"OPTIONS"}} ELSE {{}})
  ELSE IF currentMode = "SETTING"
       THEN (IF currentMenu = MENU_DIFFICULTY THEN {{"DOWN"}}
             ELSE IF currentMenu = MENU_TIME
                  THEN (IF lastPins = {} THEN {{"OK"}, {"DOWN"}} ELSE {{}, {"OK"}})
             ELSE {{"OK"}})
  ELSE IF FieldAround THEN {{"OK"}}
  ELSE {{"UP"}, {"DOWN"}, {"OK"}}
NextFields ==
  \/ EditButton
  \/ IRStep(FieldKeys, FALSE, FieldPresses)
  \/ RunClock \/ RunSettings \/ RunSetTime \/ RunSetDate
SpecFields == Init /\ [][NextFields]_vars

\* ------------------------------------------------ C23 (staged field ranges)
\* v stepped within lo..hi.
SteppedIn(v, lo, hi) == IF v = hi THEN lo ELSE v + 1

\* C23: staged field ranges. The staged hour is in 0..23, the minute in
\* 0..59, the month in 1..12, the day in 1..31 and the year in 2000..2099 in
\* every state; an Up or Down edge in an edit mode adds one to the field the
\* step index selects, the maximum wrapping to the minimum, and leaves the
\* other four fields as they were.
C23_StagedFields ==
  [][LET fields  == <<tempHour, tempMinute, tempYear, tempMonth, tempDay>>
         fields1 == <<tempHour', tempMinute', tempYear', tempMonth', tempDay'>>
         k       == IF currentMode = "SET_TIME" THEN (IF settingStep = 0 THEN 1 ELSE 2)
                    ELSE IF settingStep = 0 THEN 3
                    ELSE IF settingStep = 1 THEN 4 ELSE 5
         lo      == <<0, 0, 2000, 1, 1>>
         hi      == <<23, 59, 2099, 12, 31>>
     IN /\ \A i \in 1..5 : fields[i] \in lo[i]..hi[i] /\ fields1[i] \in lo[i]..hi[i]
        /\ (pc = "ir" /\ currentMode \in EditModes
              /\ (EdgeOf("UP") \/ EdgeOf("DOWN")) /\ ~EdgeOf("RETURN")) =>
             \A i \in 1..5 :
               fields1[i] = IF i = k THEN SteppedIn(fields[i], lo[i], hi[i])
                            ELSE fields[i]]_vars

\* The year was stepped from 2099 to 2000, the other fields as the clock
\* gave them.
C23_Witness ==
  /\ pc = "mode" /\ currentMode = "SET_DATE" /\ settingStep = 0 /\ lastPins = {"UP"}
  /\ tempYear = 2000 /\ tempMonth = RtcBoot.month /\ tempDay = RtcBoot.day
C23_HourWrapped   == currentMode = "SET_TIME" /\ settingStep = 0 /\ tempHour = 0
                       /\ lastPins = {"DOWN"}
C23_MinuteWrapped == currentMode = "SET_TIME" /\ settingStep = 1 /\ tempMinute = 0
                       /\ tempHour = 13 /\ lastPins = {"UP"}
C23_MonthWrapped  == currentMode = "SET_DATE" /\ settingStep = 1 /\ tempMonth = 1
                       /\ tempYear = 2026 /\ lastPins = {"UP"}
C23_DayWrapped    == currentMode = "SET_DATE" /\ settingStep = 2 /\ tempDay = 1
                       /\ tempMonth = 2 /\ lastPins = {"DOWN"}

\* ------------------------------------------------------ the game selection
\* No statement of the sources sets the mode to GAME_SELECT. Its handlers are
\* run from a start in it: the globals as at boot, the mode GAME_SELECT
\* entered at this moment. The remote cycles the selection, launches and
\* cancels, and quits the launched game; the button is pressed, held and
\* released, sampled every IdleTicks milliseconds.
SelectOpen == [Boot EXCEPT !.currentMode = "GAME_SELECT", !.sinceIR = 0]
SelectKeys ==
  IF currentMode = "GAME_SELECT" THEN {{}, {"UP"}, {"DOWN"}, {"OK"}, {"RETURN"}}
  ELSE {{}, {"RETURN"}}
NextSelect ==
  \/ ButtonStep(IdleTicks, {FALSE, TRUE}, DeepPresses)
  \/ IRStep(SelectKeys, FALSE, DeepPresses)
  \/ RunGameSelect \/ RunDino \/ RunDodge \/ RunSnake \/ RunClock
SpecSelect == Starts(SelectOpen) /\ [][NextSelect]_vars

\* ------------------------------------------------- C24 (GameSelect launch)
\* The selected game is launched, its engine reset.
SelectedLaunched ==
  IF gameSelectChoice = 0 THEN DinoLaunched
  ELSE IF gameSelectChoice = 1 THEN DodgeLaunched
  ELSE SnakeLaunched

\* The sample of the button ends a press that fired the medium hold and
\* lasted BUTTON_LONG_PRESS_MS or longer.
LongHoldReleased ==
  /\ pc = "button" /\ btnActive /\ ~btnActive' /\ btnMediumFired
  /\ sinceBtn' >= BUTTON_LONG_PRESS_MS

\* The remote's part of C24: in GameSelect an Ok edge launches the selected
\* game with its engine reset, an Up edge steps the selection back and a Down
\* edge forward modulo 3, and the selection stays in {0, 1, 2}.
SelectByRemote ==
  (pc = "ir" /\ currentMode = "GAME_SELECT" /\ ~EdgeOf("RETURN")) =>
    /\ (EdgeOf("OK") /\ lastPins' = {"OK"}) => SelectedLaunched
    /\ EdgeOf("UP") => gameSelectChoice' = (gameSelectChoice + 2) % 3
    /\ (EdgeOf("DOWN") /\ ~EdgeOf("UP")) =>
         gameSelectChoice' = (gameSelectChoice + 1) % 3

C24_RemoteLaunch == [][gameSelectChoice' \in 0..2 /\ SelectByRemote]_vars

\* Reached: Snake launched by Up and Ok, Dodge by Down and Ok, Dino by Ok;
\* a long hold released in GameSelect, which is still GameSelect after it.
C24_SnakeByOk == pc = "mode" /\ currentMode = "SNAKE_GAME" /\ lastPins = {"OK"}
                   /\ gameSelectChoice = 2 /\ presses = 2
C24_DodgeByOk == pc = "mode" /\ currentMode = "DODGE_GAME" /\ lastPins = {"OK"}
                   /\ gameSelectChoice = 1 /\ presses = 2
C24_DinoByOk  == pc = "mode" /\ currentMode = "GAME" /\ lastPins = {"OK"}
                   /\ gameSelectChoice = 0 /\ presses = 1
C24_HoldIgnored ==
  /\ pc = "ir" /\ currentMode = "GAME_SELECT" /\ ~btnActive /\ btnMediumFired
  /\ sinceBtn >= BUTTON_LONG_PRESS_MS /\ btnEvent = "none"

\* ------------------------------------------------------ the equations
\* Expressions are sequences of characters. snprintf's "%d": the decimal
\* digits of n, after a minus sign when n is negative.
DigitChar == <<"0", "1", "2", "3", "4", "5", "6", "7", "8", "9">>
RECURSIVE Decimal(_)
Decimal(n) ==
  IF n < 0 THEN <<"-">> \o Decimal(0 - n)
  ELSE IF n < 10 THEN <<DigitChar[n + 1]>>
  ELSE Decimal(n \div 10) \o <<DigitChar[(n % 10) + 1]>>

\* The macro copying the text whatever its length.
TRYUnchecked(text) == text

\* The macro TRY: the formatted text reaches the result buffer only when it
\* has 5 characters or fewer; the buffer, cleared at the start of the
\* attempt, is empty otherwise.
TRY(text) == IF Len(text) <= 5 THEN text ELSE <<>>

\* for (factor = 9; factor >= 2; factor--): the first factor that divides n
\* with a quotient of most or less, 0 when there is none.
LargestFactor(n, most) ==
  LET fs == {f \in 2..9 : n % f = 0 /\ n \div f <= most}
  IN IF fs = {} THEN 0 ELSE CHOOSE f \in fs : \A g \in fs : g <= f

\* One attempt of the loop of getEquation(), target > 0: the result buffers
\* the draws of random() can leave, the empty buffer when nothing was copied.
EquationAttempt(target, lvl) ==
  LET sum(a, b)     == IF b >= 0 /\ b <= 99 THEN TRY(Decimal(a) \o <<"+">> \o Decimal(b))
                       ELSE <<>>
      diff(a, b)    == IF b <= 99 THEN TRY(Decimal(a) \o <<"-">> \o Decimal(b)) ELSE <<>>
      times(n, most) ==
        LET f == LargestFactor(n, most)
        IN IF f = 0 THEN <<>> ELSE Decimal(f) \o <<"x">> \o Decimal(n \div f)
      plain   == {TRY(Decimal(a) \o <<"+">> \o Decimal(target - a)) : a \in 0..target}
      highAdd == {sum(a, target - a) : a \in 0..(Min(100, target + 1) - 1)}
      highSub == {diff(a, a - target) : a \in target..99}
  IN
  IF lvl = 1 THEN plain
  ELSE IF lvl = 2 THEN
    {IF target - a <= 50 THEN TRY(Decimal(a) \o <<"+">> \o Decimal(target - a)) ELSE <<>> :
       a \in 0..(Min(target + 1, 50) - 1)}
    \cup {TRY(Decimal(a) \o <<"-">> \o Decimal(a - target)) :
            a \in target..(Min(target + 50, 99) - 1)}
  ELSE IF lvl = 3 THEN
    highAdd \cup highSub
    \cup {IF target * b <= 999 THEN TRY(Decimal(target * b) \o <<"/">> \o Decimal(b))
          ELSE <<>> : b \in 2..8}
  ELSE IF lvl = 4 THEN
    (IF target >= 2
     THEN {IF times(target, target) = <<>> THEN <<>> ELSE TRY(times(target, target))}
     ELSE highSub)
    \cup highAdd \cup highSub
  ELSE IF lvl = 5 THEN
    IF target < 2 THEN {<<>>}
    ELSE
      {IF times(target - c, 9) = <<>> THEN <<>>
       ELSE TRY(times(target - c, 9) \o <<"+">> \o Decimal(c)) : c \in 1..(target - 1)}
      \cup {IF times(target + c, 9) = <<>> THEN <<>>
            ELSE TRY(times(target + c, 9) \o <<"-">> \o Decimal(c)) : c \in 1..19}
      \cup {IF (target - c) * b <= 99
            THEN TRY(Decimal((target - c) * b) \o <<"/">> \o Decimal(b) \o <<"+">>
                       \o Decimal(c))
            ELSE <<>> : c \in 1..(target - 1), b \in 2..8}
      \cup {IF (target + c) * b <= 99
            THEN TRY(Decimal((target + c) * b) \o <<"/">> \o Decimal(b) \o <<"-">>
                       \o Decimal(c))
            ELSE <<>> : c \in 1..29, b \in 2..8}
      \cup {IF times(target - a, 9) = <<>> THEN <<>>
            ELSE TRY(Decimal(a) \o <<"+">> \o times(target - a, 9)) : a \in 1..(target - 1)}
      \cup {IF target + p <= 99 /\ times(p, 9) # <<>>
            THEN TRY(Decimal(target + p) \o <<"-">> \o times(p, 9))
            ELSE <<>> : p \in 2..49}
  ELSE plain

\* The fallback after the attempts: a one-digit first addend.
EquationFallback(target) ==
  {LET text == TRY(Decimal(a) \o <<"+">> \o Decimal(target - a))
   IN IF Len(text) > 5 THEN TRY(Decimal(target)) ELSE text :
     a \in 0..(Min(target + 1, 9) - 1)}

\* getEquation(): the expressions a call can return. The loop returns the
\* first attempt that left a text; when an attempt can leave none, so can all
\* of them, and the fallback is returned.
getEquation(target, lvl) ==
  IF target = 0 THEN {<<"0", "+", "0">>}
  ELSE LET tried == EquationAttempt(target, lvl)
       IN (tried \ {<<>>}) \cup (IF <<>> \in tried THEN EquationFallback(target) ELSE {})

\* updateClock(): the expression for the next minute is generated, at each
\* level in turn: the five levels and, below and above them, 0 and 6.
EquationLevels == 0..6
NextEquation ==
  LET first  == equation.text = <<>>
      lvl    == IF first \/ equation.lvl = 6 THEN 0 ELSE equation.lvl + 1
      target == IF first THEN 0
                ELSE IF equation.lvl = 6 THEN (equation.target + 1) % 60
                ELSE equation.target
  IN /\ lvl \in EquationLevels
     /\ \E text \in getEquation(target, lvl) :
          Commit([State EXCEPT !.equation = [target |-> target, lvl |-> lvl,
                                             text |-> text]])
     /\ pc' = pc
SpecEquation == Init /\ [][NextEquation]_vars

\* ------------------------------------------------- C25 (equation generator)
\* The pieces of the expression s between the operators of ops, each with the
\* operator before it ("" for the first).
RECURSIVE Pieces(_, _)
Pieces(s, ops) ==
  IF s = <<>> THEN << [op |-> "", text |-> <<>>] >>
  ELSE LET front == Pieces(SubSeq(s, 1, Len(s) - 1), ops)
           c     == s[Len(s)]
           n     == Len(front)
       IN IF c \in ops THEN Append(front, [op |-> c, text |-> <<>>])
          ELSE [front EXCEPT ![n].text = Append(@, c)]

\* The number a text of digits denotes.
RECURSIVE NumberOf(_)
NumberOf(t) ==
  IF t = <<>> THEN 0
  ELSE NumberOf(SubSeq(t, 1, Len(t) - 1)) * 10
         + (CHOOSE d \in 0..9 : DigitChar[d + 1] = t[Len(t)])

\* The value of a product of numbers, from the left; of a sum of products.
RECURSIVE ProductOf(_)
ProductOf(ps) ==
  LET n == Len(ps) IN
  IF n = 1 THEN NumberOf(ps[1].text)
  ELSE IF ps[n].op = "x" THEN ProductOf(SubSeq(ps, 1, n - 1)) * NumberOf(ps[n].text)
  ELSE ProductOf(SubSeq(ps, 1, n - 1)) \div NumberOf(ps[n].text)
RECURSIVE SumOf(_)
SumOf(ts) ==
  LET n    == Len(ts)
      last == ProductOf(Pieces(ts[n].text, {"x", "/"}))
  IN IF n = 1 THEN last
     ELSE IF ts[n].op = "+" THEN SumOf(SubSeq(ts, 1, n - 1)) + last
     ELSE SumOf(SubSeq(ts, 1, n - 1)) - last
ValueOf(s) == SumOf(Pieces(s, {"+", "-"}))

\* s is an expression: numbers of one or more digits between operators, no
\* division by zero and none with a remainder.
RECURSIVE DividesExactly(_)
DividesExactly(ps) ==
  LET n == Len(ps) IN
  n = 1 \/ /\ DividesExactly(SubSeq(ps, 1, n - 1))
           /\ ps[n].op = "/" =>
                /\ NumberOf(ps[n].text) # 0
                /\ ProductOf(SubSeq(ps, 1, n - 1)) % NumberOf(ps[n].text) = 0
IsExpression(s) ==
  /\ \A i \in 1..Len(s) :
       s[i] \in {DigitChar[d] : d \in 1..10} \cup {"+", "-", "x", "/"}
  /\ \A t \in {Pieces(s, {"+", "-"})[i] : i \in 1..Len(Pieces(s, {"+", "-"}))} :
       LET ps == Pieces(t.text, {"x", "/"})
       IN /\ \A i \in 1..Len(ps) : ps[i].text # <<>>
          /\ DividesExactly(ps)

\* C25: equation generator. Every expression getEquation() returns, for a
\* target of 0..59 at a level of 1..5 or at another level, is a non-empty
\* expression of at most 5 characters whose value, with multiplication and
\* division before addition and subtraction, is the target.
C25_EquationValue ==
  equation.text # <<>> =>
    /\ equation.target \in 0..59 /\ equation.lvl \in EquationLevels
    /\ Len(equation.text) \in 1..5
    /\ IsExpression(equation.text)
    /\ ValueOf(equation.text) = equation.target

\* 59 shown at level 5 as 8x8-5.
C25_Witness ==
  /\ equation.target = 59 /\ equation.lvl = 5
  /\ equation.text = <<"8", "x", "8", "-", "5">>

\* Also reached: a division of a three-digit number; the fallback, at level 5
\* for the target 1, which no pattern takes; a level above the five; zero.
C25_Division == equation.target = 59 /\ equation.lvl = 3
                  /\ equation.text = <<"4", "7", "2", "/", "8">>
C25_Fallback == equation.target = 1 /\ equation.lvl = 5
                  /\ equation.text = <<"0", "+", "1">>
C25_OtherLevel == equation.target = 30 /\ equation.lvl = 6 /\ Len(equation.text) = 5
C25_Zero == equation.target = 0 /\ equation.lvl = 4
              /\ equation.text = <<"0", "+", "0">>

\* ------------------------------------------------------ C26 (Dino jump input)
\* The sample of this iteration had an edge on a line Dino takes as a jump
\* (no line stays asserted over two samples in the specifications used).
JumpKeys == {"UP", "DOWN", "LEFT", "RIGHT", "OK"}
JumpAsked == lastPins \cap JumpKeys # {}

\* The parts of C26 on the start by an input and on the end of the jump: an
\* input while the player is on the ground starts a jump, unless the life
\* ends in the same update; no jump in progress is started again; a jump is
\* over in the first update that finds it older than JUMP_DURATION_MS, and
\* not before, unless the life ends.
JumpTiming ==
  (pc = "mode" /\ currentMode = "GAME") =>
    /\ (~isJumping /\ JumpAsked /\ death' = NoDeath) => (isJumping' /\ sinceJump' = 0)
    /\ (isJumping /\ isJumping') => sinceJump' = sinceJump
    /\ (isJumping /\ sinceJump > JUMP_DURATION_MS) => ~isJumping'
    /\ (isJumping /\ sinceJump <= JUMP_DURATION_MS /\ death' = NoDeath) => isJumping'

\* C26: Dino jump input. An input while the player is not jumping starts a
\* jump; an input during a jump starts none, neither during that jump nor
\* after it, so that a jump starts only in an iteration whose sample had an
\* input; the jump ends once more than 450 ms have passed since its start.
C26_DinoJump ==
  [][/\ JumpTiming
     /\ (pc = "mode" /\ currentMode = "GAME" /\ ~isJumping /\ isJumping') => JumpAsked]_vars

\* The start and the end of the jump alone, which hold.
C26_JumpTiming == [][JumpTiming]_vars

\* Reached: a jump started in an iteration without input, by the request
\* made during the jump before; a jump that ended.
C26_LateJump == pc = "button" /\ currentMode = "GAME" /\ isJumping /\ sinceJump = 0
                  /\ lastPins = {} /\ presses = 3
C26_JumpOver == pc = "button" /\ currentMode = "GAME" /\ ~isJumping
                  /\ sinceJump > JUMP_DURATION_MS /\ presses = 2 /\ ~irJumpTriggered

C26_AskedInJump == pc = "mode" /\ currentMode = "GAME" /\ isJumping /\ sinceJump = 400
                     /\ irJumpTriggered /\ lastPins = {"UP"}


\* ----------------------------------------------- C27 (no buffered input)
\* C27: input events are never buffered. At the end of every iteration of
\* loop() no request is pending: not the Dino jump, not a Dodge move left or
\* right, not a Snake turn; so none is carried into a later iteration, past
\* the reset of a lost life, or into a later launch.
C27_NoBufferedInput ==
  pc = "button" =>
    /\ ~irJumpTriggered
    /\ ~dodgeMoveLeft /\ ~dodgeMoveRight
    /\ ~snakeTurnUp /\ ~snakeTurnDown /\ ~snakeTurnLeft /\ ~snakeTurnRight

\* The Dodge and Snake requests alone, which are consumed by the update of
\* the iteration that set them.
C27_DodgeSnakeConsumed ==
  pc = "button" =>
    /\ ~dodgeMoveLeft /\ ~dodgeMoveRight
    /\ ~snakeTurnUp /\ ~snakeTurnDown /\ ~snakeTurnLeft /\ ~snakeTurnRight

\* Reached: a Dodge move and a Snake turn set by the sample and not yet
\* consumed; a jump request pending at the end of an iteration.
C27_DodgeAsked == pc = "mode" /\ currentMode = "DODGE_GAME" /\ dodgeMoveLeft
C27_SnakeAsked == pc = "mode" /\ currentMode = "SNAKE_GAME" /\ snakeTurnUp
C27_JumpPending == pc = "button" /\ currentMode = "GAME" /\ irJumpTriggered
                     /\ isJumping /\ sinceJump = 400


\* ------------------------------------------------ lines held across ticks
\* The remote's lines may stay asserted from one tick to the next, alone or
\* while another line is pressed: Options held while Settings opens, Ok held
\* while an edit opens, Return held while an edit closes, Game1 held into Dino.
\* The button is left alone.
HeldPins == {{}, {"OPTIONS"}, {"DOWN"}, {"OK"}, {"RETURN"}, {"GAME1"},
             {"UP"}, {"OK", "DOWN"}, {"OK", "UP"}}
NextHeld == ButtonStep(IdleTicks, {FALSE}, MaxPresses)
              \/ IRStep(HeldPins, TRUE, MaxPresses)
              \/ RunClock \/ RunSettings \/ RunSetTime \/ RunSetDate \/ RunDinoPlay
SpecHeld == Init /\ [][NextHeld]_vars

\* What the dispatcher leaves alone when it sees no event: everything but the
\* per-line previous state and the activity stamps an asserted line refreshes.
Quiet(s) == [s EXCEPT !.lastPins = {}, !.pinSample = {}, !.buttonMode = "none",
                      !.sinceIR = 0, !.sinceGameIR = 0, !.sinceInput = 0]

\* C28: each line gives an event in a tick exactly when it is asserted in that
\* tick's sample and was not in the sample before. The previous state kept per
\* line is the sample of the tick, in every mode; a sample that asserts no new
\* line changes nothing; a line's action happens on its edge and, while the line
\* is merely held, does not happen again, also in the mode its event opened.
C28_EdgeDetection ==
  [][pc = "ir" =>
       LET edge(k) == k \in pinSample' /\ k \notin pinSample
           m       == currentMode
           same    == currentMode' = currentMode
       IN /\ lastPins = pinSample /\ lastPins' = pinSample'
          /\ (pinSample' \subseteq pinSample) => Quiet(State)' = Quiet(State)
          \* Return
          /\ (m \in GameModes \cup {"SETTING"} /\ edge("RETURN"))
               => currentMode' = "CLOCK"
          /\ (m \in EditModes /\ edge("RETURN")) => currentMode' = "SETTING"
          /\ (m \in GameModes /\ ~edge("RETURN")) => same
          \* Game1 and Options on the clock
          /\ (m = "CLOCK" /\ edge("GAME1")) => currentMode' = "GAME"
          /\ (m = "CLOCK" /\ edge("OPTIONS") /\ ~edge("GAME1"))
               => currentMode' = "SETTING"
          /\ (m = "CLOCK" /\ ~edge("GAME1") /\ ~edge("OPTIONS")) => same
          \* Down, Up and Ok in Settings
          /\ (m = "SETTING" /\ ~edge("RETURN") /\ edge("DOWN") /\ ~edge("UP"))
               => currentMenu' = (currentMenu + 1) % 4
          /\ (m = "SETTING" /\ ~edge("RETURN") /\ edge("UP") /\ ~edge("DOWN"))
               => currentMenu' = (currentMenu + 3) % 4
          /\ (m = "SETTING" /\ ~edge("UP") /\ ~edge("DOWN"))
               => currentMenu' = currentMenu
          /\ (m = "SETTING" /\ ~edge("RETURN") /\ ~edge("OK"))
               => same /\ difficulty' = difficulty
          \* Ok, Up and Down in the edits
          /\ (m \in EditModes /\ ~edge("RETURN") /\ edge("OK"))
               => settingStep' = settingStep + 1 \/ currentMode' = "CLOCK"
          /\ (m \in EditModes /\ ~edge("RETURN") /\ ~edge("OK"))
               => same /\ settingStep' = settingStep
          /\ (m \in EditModes /\ ~edge("UP") /\ ~edge("DOWN"))
               => UNCHANGED <<tempHour, tempMinute, tempYear, tempMonth, tempDay>>
          /\ (m = "SET_TIME" /\ ~edge("RETURN") /\ (edge("UP") \/ edge("DOWN")))
               => <<tempHour', tempMinute'>> # <<tempHour, tempMinute>>
          \* the jump keys in Dino
          /\ (m = "GAME" /\ ~edge("RETURN") /\ (edge("UP") \/ edge("DOWN") \/ edge("OK")))
               => irJumpTriggered'
          /\ (m = "GAME" /\ pinSample' \cap JumpKeys \subseteq pinSample)
               => irJumpTriggered' = irJumpTriggered]_vars

\* Return closed the time edit and is still held a tick later: Settings, which
\* a Return event would close, is still open.
C28_Witness ==
  /\ pc = "mode" /\ currentMode = "SETTING" /\ pinSample = {"RETURN"}
  /\ sinceSettingsAct > 0

\* Ok was pressed on the Time item and is still held in the tick after: the
\* time edit it opened is on its first field.
C28_OkHeld ==
  /\ pc = "mode" /\ currentMode = "SET_TIME" /\ settingStep = 0
  /\ pinSample = {"OK"} /\ sinceSettingsAct > 0

\* Ok is held from the tick before and Up is pressed: the hour steps, the field
\* stays.
C28_HeldWithEdge ==
  /\ pc = "mode" /\ currentMode = "SET_TIME" /\ settingStep = 0
  /\ pinSample = {"OK", "UP"} /\ tempHour # rtc.hour /\ presses = 3

\* Dino was launched by Game1 and Up is pressed in it: the jump is requested.
C28_JumpAfterLaunch ==
  /\ pc = "mode" /\ currentMode = "GAME" /\ pinSample = {"UP"}
  /\ irJumpTriggered

\* Options opened Settings and is still held a tick later.
C28_OptionsHeld ==
  /\ pc = "mode" /\ currentMode = "SETTING" /\ pinSample = {"OPTIONS"}
  /\ sinceSettingsAct > 0 /\ presses = 1


C29_SameModeSeen == pc = "ir" => currentMode = buttonMode

\* The button, held from the clock, opened Settings, and Down with Ok, sampled
\* in the same tick, opened the time edit: the mode update of a tick that began
\* on the clock runs the time edit.
C29_TwoTransitions ==
  /\ pc = "mode" /\ btnEvent = "medium" /\ currentMode = "SET_TIME"
  /\ presses = 2


\* ------------------------------------------------------ C30 (reset on death)
\* The engine fields as a launch from a fresh start leaves them, after the step.
DinoFields ==
  /\ score' = 0 /\ gameSpeed' = INITIAL_GAME_SPEED
  /\ obstacleX' = OBSTACLE_START_X /\ obstacleType' = GROUND_OBSTACLE
  /\ playerY' = PLAYER_GROUND_Y /\ ~isJumping'
DodgeFields ==
  /\ dodgeScore' = 0 /\ dodgeSpeed' = DODGE_INITIAL_SPEED
  /\ dodgePlayerX' = DODGE_PLAYER_START_X
  /\ dodgeBlocks'[0].active /\ dodgeBlocks'[0].y = 0 /\ ~dodgeBlocks'[1].active
  /\ ~dodgeMoveLeft' /\ ~dodgeMoveRight'
SnakeFields ==
  /\ snakeScore' = 0 /\ snakeSpeed' = SNAKE_INITIAL_SPEED
  /\ snakeBody' = << <<7, 5>>, <<6, 5>>, <<5, 5>> >>
  /\ snakeDir' = DIR_RIGHT /\ snakePendingDir' = DIR_RIGHT
  /\ ~snakeTurnUp' /\ ~snakeTurnDown' /\ ~snakeTurnLeft' /\ ~snakeTurnRight'

\* The step ends a life: the high score is the better of the old one and the
\* score of the life, and so is its cell when the score was better.
DeathPersisted ==
  LET g == death'.game
  IN /\ HighScoreNext(g) = IF death'.score > HighScoreOf(g) THEN death'.score
                           ELSE HighScoreOf(g)
     /\ death'.score > HighScoreOf(g) => eeprom'[g] = death'.score

\* C30: reset on death. The step in which a life ends persists the high score
\* if it was improved and leaves all of the engine's state as a fresh launch
\* does: score 0, the initial interval, the initial positions of player,
\* obstacle, blocks and body, no jump in progress and none asked for. The next
\* engine update starts from that state.
C30_ResetOnDeath ==
  [][(pc = "mode" /\ death'.game \in ScoreKeys) =>
       /\ DeathPersisted
       /\ death'.game = "dino" => (DinoFields /\ ~irJumpTriggered')
       /\ death'.game = "dodge" => DodgeFields
       /\ death'.game = "snake" => SnakeFields]_vars

\* The part that holds: the same with Dino's jump request left out.
C30_FieldsReset ==
  [][(pc = "mode" /\ death'.game \in ScoreKeys) =>
       /\ DeathPersisted
       /\ death'.game = "dino" => DinoFields
       /\ death'.game = "dodge" => DodgeFields
       /\ death'.game = "snake" => SnakeFields]_vars

\* A Dino life has just ended with a jump request pending: the engine is reset
\* and the request is still there.
C30_DeathWithRequest ==
  /\ pc = "button" /\ death.game = "dino" /\ currentMode = "GAME"
  /\ score = 0 /\ ~isJumping /\ irJumpTriggered

\* A Dodge life and a Snake life have just ended, with points.
C30_DodgeDeath ==
  pc = "button" /\ death.game = "dodge" /\ death.score > 0 /\ dodgeScore = 0
C30_SnakeDeath ==
  pc = "button" /\ death.game = "snake" /\ death.score > 0 /\ snakeScore = 0


\* ------------------------------------------------ C31 (Snake shift, growth)
\* A call of runSnakeGame() in which the snake moves: the mode is Snake, the
\* idle timeout has not run out and the move interval has.
SnakeMoveDue ==
  /\ pc = "mode" /\ currentMode = "SNAKE_GAME"
  /\ sinceGameIR <= SNAKE_TIMEOUT_MS /\ sinceSnakeMove >= snakeSpeed

\* C31: Snake shift and growth. At a movement tick that does not kill the
\* snake the new body is the computed head followed by the old segments in
\* order; the old tail is dropped exactly when no food was eaten or the length
\* is at the cap of 24; eating adds 1 to the score and, below the cap, 1 to the
\* length. Other steps that are no death and no launch leave body and score as
\* they are, and in Snake the length is always within 3..24 (it is 0 until the
\* first launch).
C31_SnakeShiftGrowth ==
  [][LET old    == snakeBody
         new    == snakeBody'
         head   == SnakeStep(old[1], snakeDir')
         ate    == head = <<foodX, foodY>>
         keeps  == ate /\ Len(old) < SNAKE_MAX_LENGTH
         launch == pc = "ir" /\ currentMode = "CLOCK" /\ currentMode' = "SNAKE_GAME"
     IN /\ currentMode' = "SNAKE_GAME"
             => (Len(new) >= 3 /\ Len(new) <= SNAKE_MAX_LENGTH)
        /\ (SnakeMoveDue /\ death'.game # "snake") =>
             /\ new[1] = head
             /\ Len(new) = IF keeps THEN Len(old) + 1 ELSE Len(old)
             /\ \A i \in 2..Len(new) : new[i] = old[i - 1]
             /\ snakeScore' = IF ate THEN snakeScore + 1 ELSE snakeScore
        /\ (~SnakeMoveDue /\ ~launch) => UNCHANGED <<snakeBody, snakeScore>>]_vars

\* A food was eaten at the cap: 24 segments before and after, the score one up.
C31_Witness ==
  /\ pc = "button" /\ currentMode = "SNAKE_GAME" /\ Len(snakeBody) = SNAKE_MAX_LENGTH
  /\ snakeScore = 70 /\ snakeBody[1] = <<8, 5>>

\* A food was eaten below the cap: the body is one longer.
C31_Grown ==
  /\ pc = "button" /\ currentMode = "SNAKE_GAME" /\ snakeScore = 5
  /\ Len(snakeBody) = 8 /\ snakeBody[1] = <<8, 5>>

\* A move without food: the tail was dropped.
C31_Moved ==
  /\ pc = "button" /\ currentMode = "SNAKE_GAME" /\ snakeScore = 5
  /\ Len(snakeBody) = 8 /\ snakeBody[1] = <<9, 5>>


\* ------------------------------------------------- C32 (Snake food placement)
\* A step in which spawnFood() is called: a launch of Snake, a death in it, or
\* a move onto the food.
FoodPlaced ==
  \/ pc = "ir" /\ currentMode = "CLOCK" /\ currentMode' = "SNAKE_GAME"
  \/ death'.game = "snake"
  \/ SnakeMoveDue /\ SnakeStep(snakeBody[1], snakeDir') = <<foodX, foodY>>

\* C32: Snake food placement. Whenever food is placed the cell is inside the
\* grid and no segment of the snake is on it; when the 200 tries are used up
\* the placement is skipped, so the food is never moved onto an occupied cell.
C32_FoodPlacement ==
  [][FoodPlaced =>
       /\ InSnakeGrid(<<foodX', foodY'>>)
       /\ <<foodX', foodY'>> # <<foodX, foodY>>
            => ~Occupied(snakeBody', <<foodX', foodY'>>)]_vars

\* The part that holds: the food placed is inside the grid.
C32_FoodInGrid ==
  [][FoodPlaced => InSnakeGrid(<<foodX', foodY'>>)]_vars

\* The food lies under the snake's head after a launch.
C32_FoodOnBody ==
  /\ pc = "mode" /\ currentMode = "SNAKE_GAME" /\ snakeScore = 0
  /\ snakeBody[1] = <<foodX, foodY>>


\* ------------------------------------------------ C33 (Dodge blocks on grid)
\* Dodge with the Game2 key held and blocks of every width drawn at the ends of
\* the range random() can give: far left, far right, and numbers past the last
\* column a block of that width fits in. The player stays in column 7; a life
\* is followed until DodgeGridCap blocks were survived.
GridBlocks == {<<1, 0>>, <<1, 14>>, <<2, 13>>, <<3, 12>>, <<3, 14>>, <<2, 6>>}
RunDodgeGrid ==
  /\ pc = "mode" /\ currentMode = "DODGE_GAME" /\ dodgeScore < DodgeGridCap
  /\ \E r \in DrawsFrom("run", {}, State, GridBlocks) : Commit(runDodgeGame(State, r))
  /\ pc' = "button"
NextDodgeGrid == ButtonIdleSlow \/ HeldInput \/ RunDodgeGrid
SpecDodgeGrid == Init /\ [][NextDodgeGrid]_vars

\* The block in slot i after the step is the one before it, one row lower.
DodgeFell(i) ==
  dodgeBlocks'[i] = [dodgeBlocks[i] EXCEPT !.y = @ + 1]

\* C33: Dodge blocks stay on the grid. Every active block is 1 to 3 columns
\* wide and lies within columns 0..14, and has a row in 0..9 at the end of
\* the tick; there are at most two. A block that becomes active, also in the
\* slot of one that left the grid in the same frame, is in row 0; a block above
\* the last row moves down one row in a frame and is otherwise the same, and
\* without a frame it does not change.
C33_DodgeBlocksOnGrid ==
  [][\A i \in 0..(DODGE_MAX_BLOCKS - 1) :
       LET b    == dodgeBlocks[i]
           c    == dodgeBlocks'[i]
           frame == DodgeFrameDue
       IN /\ c.active =>
               /\ c.width >= 1 /\ c.width <= 3
               /\ c.x >= 0 /\ c.x + c.width <= DODGE_COLS
               /\ c.y >= 0 /\ c.y <= DODGE_ROWS - 1
          /\ (c.active /\ (~b.active \/ (frame /\ b.y = DODGE_ROWS - 1))) => c.y = 0
          /\ (b.active /\ death'.game # "dodge" /\ currentMode = "DODGE_GAME") =>
               IF ~frame THEN c = b
               ELSE b.y < DODGE_ROWS - 1 => DodgeFell(i)
          /\ DodgeActiveCount(dodgeBlocks') <= 2]_vars

\* Two blocks are falling, the one of three columns in the last place it fits.
C33_Witness ==
  /\ pc = "button" /\ currentMode = "DODGE_GAME"
  /\ dodgeBlocks[0].active /\ dodgeBlocks[1].active
  /\ \E i \in 0..1 : dodgeBlocks[i].width = 3 /\ dodgeBlocks[i].x = 12
                       /\ dodgeBlocks[i].y = DODGE_ROWS - 1

\* A draw past the last fitting column was reduced: three columns from column 1.
C33_Reduced ==
  /\ pc = "button" /\ currentMode = "DODGE_GAME"
  /\ \E i \in 0..1 : dodgeBlocks[i].active /\ dodgeBlocks[i].width = 3
                       /\ dodgeBlocks[i].x = 1 /\ dodgeBlocks[i].y = 5


\* ------------------------------------------------ C34 (Dodge player movement)
\* Dodge walked from the start column to either edge of the grid and against
\* it: Left and Right pressed one at a time, both in one sample, and Left in
\* the sample of a Return, each press released in the next sample. Every block
\* is drawn in the start column.
MoveBlocks == {<<1, 7>>}
MoveKeys ==
  IF lastPins # {} THEN {{}}
  ELSE IF currentMode = "CLOCK" THEN {{"GAME2"}}
  ELSE {{"LEFT"}, {"RIGHT"}, {"LEFT", "RIGHT"}, {"RETURN", "LEFT"}}
MoveInput  == IRStep(MoveKeys, FALSE, MovePresses)
RunDodgeMove ==
  /\ pc = "mode" /\ currentMode = "DODGE_GAME" /\ dodgeScore < DodgeGridCap
  /\ \E r \in DrawsFrom("run", {}, State, MoveBlocks) : Commit(runDodgeGame(State, r))
  /\ pc' = "button"
NextDodgeMove == ButtonIdleSlow \/ MoveInput \/ RunDodgeMove \/ RunClock
SpecDodgeMove == Init /\ [][NextDodgeMove]_vars

\* C34: Dodge player movement. In Dodge the dispatcher notes a Left and a
\* Right edge (and nothing else) for the update of the same tick, which makes
\* the moves noted: one column to the left for a Left edge, unless the player
\* is in column 0, then one column to the right for a Right edge, unless the
\* player is in column 14, and refreshes the game activity timestamp for each.
\* The column changes in no other way while a life goes on, and it is always
\* within 0..14.
C34_DodgePlayerMoves ==
  [][LET x     == dodgePlayerX
         left  == IF dodgeMoveLeft /\ x > 0 THEN x - 1 ELSE x
         right == IF dodgeMoveRight /\ left < DODGE_COLS - 1 THEN left + 1 ELSE left
         lives == /\ pc = "mode" /\ currentMode = "DODGE_GAME"
                  /\ sinceGameIR <= DODGE_TIMEOUT_MS /\ death'.game # "dodge"
     IN /\ dodgePlayerX' >= 0 /\ dodgePlayerX' <= DODGE_COLS - 1
        /\ (pc = "ir" /\ currentMode = "DODGE_GAME") =>
             /\ dodgePlayerX' = x
             /\ ~EdgeOf("RETURN") =>
                  /\ dodgeMoveLeft' = EdgeOf("LEFT")
                  /\ dodgeMoveRight' = EdgeOf("RIGHT")
        /\ lives =>
             /\ dodgePlayerX' = right
             /\ ~dodgeMoveLeft' /\ ~dodgeMoveRight'
             /\ (dodgeMoveLeft \/ dodgeMoveRight) => sinceGameIR' = 0
        /\ (pc = "button" /\ currentMode = "DODGE_GAME") => dodgePlayerX' = x]_vars

\* Left was pressed in column 0: the player is still there, the timestamp new.
C34_Witness ==
  /\ pc = "button" /\ currentMode = "DODGE_GAME" /\ dodgePlayerX = 0
  /\ lastPins = {"LEFT"} /\ presses = 9 /\ sinceGameIR = 0

\* Right was pressed in column 14.
C34_RightEdge ==
  /\ pc = "button" /\ currentMode = "DODGE_GAME" /\ dodgePlayerX = DODGE_COLS - 1
  /\ lastPins = {"RIGHT"} /\ presses = 9

\* Left and Right in one sample in column 0: the player is in column 1.
C34_BothAtEdge ==
  /\ pc = "button" /\ currentMode = "DODGE_GAME" /\ dodgePlayerX = 1
  /\ lastPins = {"LEFT", "RIGHT"} /\ presses = 9 /\ death.game = "none"

\* Left in the sample of a Return: the game is left.
C34_LeftWithReturn ==
  pc = "mode" /\ currentMode = "CLOCK" /\ lastPins = {"RETURN", "LEFT"}


\* ------------------------------------------- C35 (invalid values in the store)
\* setup() with a store this program has not written: the difficulty cell and
\* the Snake cell blank (all bits set: 255, and -1 as an int), the Dino cell
\* negative, the Dodge cell above 9999.
BlankStore == [difficulty |-> 255, dino |-> -1, dodge |-> 10000, snake |-> -1]
setupStored(s, st) ==
  LET a == loadDifficulty([s EXCEPT !.eeprom = st], st.difficulty)
  IN [a EXCEPT !.highScore = loadHighScore(st.dino),
               !.dodgeHighScore = loadDodgeHighScore(st.dodge),
               !.snakeHighScore = loadSnakeHighScore(st.snake)]
SetupStored ==
  /\ pc = "boot"
  /\ Commit(setupStored(State, BlankStore))
  /\ pc' = "button"
NextStored ==
  SetupStored \/ ButtonIdleSlow \/ ScoresInput \/ RunDino \/ RunDodge \/ RunSnake
    \/ RunClock
SpecStored == PowerOn /\ [][NextStored]_vars

\* C35: invalid persisted values at boot. A difficulty outside 1..5 and a high
\* score that is negative or above its bound are replaced at load by 1 and 0,
\* and the store is rewritten with the replacement: after boot every stored
\* value equals the value in memory and lies in its range.
C35_BootRecovery ==
  pc # "boot" =>
    /\ difficulty \in 1..5 /\ eeprom.difficulty = difficulty
    /\ highScore \in 0..9999 /\ eeprom.dino = highScore
    /\ dodgeHighScore \in 0..9999 /\ eeprom.dodge = dodgeHighScore
    /\ snakeHighScore \in 0..99999 /\ eeprom.snake = snakeHighScore

\* The part that holds: the values in memory are in range after boot, and the
\* difficulty is stored as it is in memory.
C35_MemoryRecovered ==
  pc # "boot" =>
    /\ difficulty \in 1..5 /\ eeprom.difficulty = difficulty
    /\ highScore \in 0..9999 /\ dodgeHighScore \in 0..9999
    /\ snakeHighScore \in 0..99999

\* After boot and a Dodge life without points the Dodge cell still holds 10000.
C35_StaleCell ==
  /\ death.game = "dodge" /\ death.score = 0
  /\ dodgeHighScore = 0 /\ eeprom.dodge = 10000


\* ------------------------------------------------------ C36 (Settings cursor)
\* The state after one more sample of the remote in which only the line k is
\* newly asserted, and after one more short press of the button.
AfterEdge(s, k) ==
  handleIRInput([s EXCEPT !.lastPins = {}], {k},
                CHOOSE r \in Draws("launch", {}, s) : TRUE)
RECURSIVE AfterEdges(_, _, _)
AfterEdges(s, k, n) == IF n = 0 THEN s ELSE AfterEdges(AfterEdge(s, k), k, n - 1)
RECURSIVE AfterShortPresses(_, _)
AfterShortPresses(s, n) ==
  IF n = 0 THEN s ELSE AfterShortPresses(handleShortPress(s), n - 1)

\* C36: the Settings cursor. In Settings a Down edge and a short press of the
\* button each move the cursor one item forward and an Up edge one item back,
\* modulo 4; nothing else moves it while Settings is open. The cursor is always
\* one of the four items. From any state in Settings an Up and then a Down
\* give the cursor back, and so do four Downs and four short presses.
C36_SettingsCursor ==
  /\ [](currentMenu \in {MENU_DIFFICULTY, MENU_TIME, MENU_DATE, MENU_EXIT})
  /\ [](currentMode = "SETTING" =>
          /\ AfterEdge(AfterEdge(State, "UP"), "DOWN").currentMenu = currentMenu
          /\ AfterEdge(AfterEdge(State, "DOWN"), "UP").currentMenu = currentMenu
          /\ AfterEdge(State, "DOWN").currentMenu # currentMenu
          /\ AfterEdges(State, "DOWN", 4).currentMenu = currentMenu
          /\ AfterEdges(State, "DOWN", 4).currentMode = "SETTING"
          /\ AfterShortPresses(State, 4).currentMenu = currentMenu)
  /\ [][currentMode = "SETTING" =>
          LET down == IF EdgeOf("DOWN") THEN 1 ELSE 0
              up   == IF EdgeOf("UP") THEN 3 ELSE 0
          IN /\ (pc = "ir" /\ ~EdgeOf("RETURN"))
                  => currentMenu' = (currentMenu + down + up) % 4
             /\ (pc = "button" /\ btnEvent' = "short")
                  => currentMenu' = (currentMenu + 1) % 4
             /\ (pc = "button" /\ btnEvent' # "short") => currentMenu' = currentMenu
             /\ pc = "mode" => currentMenu' = currentMenu]_vars

\* The cursor was taken back from Difficulty to Exit by an Up edge.
C36_Witness ==
  /\ pc = "mode" /\ currentMode = "SETTING" /\ currentMenu = MENU_EXIT
  /\ lastPins = {"UP"}

\* A short press of the button moved the cursor from Time to Date.
C36_ByButton ==
  /\ pc = "ir" /\ currentMode = "SETTING" /\ btnEvent = "short"
  /\ currentMenu = MENU_DATE

\* A Down edge moved the cursor from Difficulty to Time.
C36_Down ==
  /\ pc = "mode" /\ currentMode = "SETTING" /\ currentMenu = MENU_TIME
  /\ lastPins = {"DOWN"}


\* --------------------------------------------- C37 (reaching the game overlay)
\* Every input that acts: in each mode, one at a time, the lines of the remote
\* that the dispatcher reads in that mode and one that it ignores there
\* (lines with the same effect are stood for by one of them), and the button,
\* pressed, held and released, one control at a time: while the button is down
\* the remote is released. In Settings Down and Ok also come together. Dino and Dodge lives are followed up to
\* PlayScoreCap points.
AnyLines ==
  CASE currentMode = "CLOCK"      -> {"GAME1", "GAME2", "GAME3", "OPTIONS", "OK"}
    [] currentMode = "SETTING"    -> {"RETURN", "UP", "DOWN", "OK", "GAME1"}
    [] currentMode \in EditModes  -> {"RETURN", "UP", "OK", "GAME1"}
    [] currentMode = "GAME"       -> {"RETURN", "OK", "GAME1"}
    [] currentMode = "DODGE_GAME" -> {"RETURN", "LEFT", "RIGHT", "GAME1"}
    [] currentMode = "SNAKE_GAME" -> {"RETURN", "UP", "DOWN", "LEFT", "RIGHT", "GAME1"}
    [] OTHER                      -> {"RETURN", "UP", "DOWN", "OK", "GAME1"}
AnyPins  == IF btnActive THEN {{}}
            ELSE {{}} \cup {{k} : k \in AnyLines}
                      \cup (IF currentMode = "SETTING" THEN {{"DOWN", "OK"}} ELSE {})
\* Time passes in long steps, and in short ones while the button is down, so
\* that a press lasts any of the lengths handleButton() tells apart.
AnyButton == IF btnActive THEN ButtonStep(MenuTicks, {FALSE, TRUE}, MaxPresses)
             ELSE ButtonStep(IdleTicks, {FALSE, TRUE}, MaxPresses)
NextAny  == AnyButton
              \/ IRStep(AnyPins, FALSE, MaxPresses)
              \/ RunClock \/ RunSettings \/ RunSetTime \/ RunSetDate
              \/ RunDinoPlay \/ RunDodgePlay \/ RunSnake
SpecAny  == Init /\ [][NextAny]_vars /\ WF_vars(NextAny)

\* C37: the game selection overlay can be reached. From boot in Clock some
\* sequence of inputs on the remote and the button enters GameSelect.
C37_GameSelectEntered == <>(currentMode = "GAME_SELECT")

\* No state reached by any input is in GameSelect: no handler assigns
\* GAME_SELECT to currentMode, so the overlay's case of loop() is never taken.
C37_NeverGameSelect == currentMode # "GAME_SELECT"



\* ---------------------------------------------- C38 (Snake body well-formed)
\* Two cells that share a side.
Adjacent(a, b) ==
  \/ a[1] = b[1] /\ (a[2] = b[2] + 1 \/ b[2] = a[2] + 1)
  \/ a[2] = b[2] /\ (a[1] = b[1] + 1 \/ b[1] = a[1] + 1)

\* C38: Snake body well-formedness. In Snake, at the end of every tick, all
\* segments are inside the 15x10 grid, they are on pairwise distinct cells,
\* and each segment shares a side with the one before it.
C38_SnakeBodyWellFormed ==
  (currentMode = "SNAKE_GAME" /\ pc = "button") =>
    /\ \A i \in 1..Len(snakeBody) : InSnakeGrid(snakeBody[i])
    /\ \A i, j \in 1..Len(snakeBody) : i # j => snakeBody[i] # snakeBody[j]
    /\ \A i \in 2..Len(snakeBody) : Adjacent(snakeBody[i], snakeBody[i - 1])

\* The part that holds: the segments are inside the grid, each beside its
\* predecessor.
C38_BodyInGrid ==
  (currentMode = "SNAKE_GAME" /\ pc = "button") =>
    /\ \A i \in 1..Len(snakeBody) : InSnakeGrid(snakeBody[i])
    /\ \A i \in 2..Len(snakeBody) : Adjacent(snakeBody[i], snakeBody[i - 1])

\* The head has moved onto the tail's cell and the tail has stayed.
C38_HeadOnTail ==
  /\ currentMode = "SNAKE_GAME" /\ pc = "button" /\ Len(snakeBody) >= 5
  /\ snakeBody[1] = snakeBody[Len(snakeBody)]



\* --------------------------------------------------- C39 (committed dates)
\* The number of days of month m of year y.
DaysIn(m, y) ==
  IF m = 2 THEN (IF y % 4 = 0 /\ (y % 100 # 0 \/ y % 400 = 0) THEN 29 ELSE 28)
  ELSE IF m \in {4, 6, 9, 11} THEN 30 ELSE 31

\* C39: committed dates are valid. Every date a SetDate commit writes to the
\* real-time clock is a date of the calendar: the month is in 1..12 and the
\* day is at least 1 and at most the number of days of that month in that
\* year; and the commit leaves the clock's hour, minute and second unchanged.
C39_CommittedDatesValid ==
  [][(currentMode = "SET_DATE" /\ RtcWritten) =>
       /\ rtc'.month \in 1..12
       /\ rtc'.day \in 1..DaysIn(rtc'.month, rtc'.year)
       /\ rtc'.hour = rtc.hour /\ rtc'.minute = rtc.minute
       /\ rtc'.second = rtc.second]_vars

\* The part that holds: a SetDate commit writes a year in 2000..2099, a month
\* in 1..12 and a day in 1..31, and keeps the hour, minute and second.
C39_TimeKept ==
  [][(currentMode = "SET_DATE" /\ RtcWritten) =>
       /\ rtc'.year \in 2000..2099 /\ rtc'.month \in 1..12 /\ rtc'.day \in 1..31
       /\ rtc'.hour = rtc.hour /\ rtc'.minute = rtc.minute
       /\ rtc'.second = rtc.second]_vars

\* After a commit the real-time clock reads the 31st of a month of 30 days.
C39_ThirtyFirstCommitted ==
  /\ rtcWrites > 0 /\ rtc.month \in {4, 6, 9, 11} /\ rtc.day = 31
  /\ rtc.hour = 12 /\ rtc.minute = 34 /\ rtc.second = 56

====
